---------------------------- MODULE Spec2Model ----------------------------
(***************************************************************************)
(* A model of the slm-data-pipeline scripts.  The main specification is    *)
(* scripts/normalize_dedup.py: normalize_and_dedup reads the               *)
(* extracted-function records of a directory, normalizes and hashes each,  *)
(* applies the quality gate, removes exact duplicates, removes near        *)
(* duplicates with a MinHash LSH index, and writes kept_records.jsonl and  *)
(* a summary.                                                              *)
(*                                                                         *)
(* Text is a sequence of one-character strings.  The two third-party       *)
(* hashes are modelled at reduced width: blake3 as a positional encoding   *)
(* of the text (collision free, as the digest is taken to be), and         *)
(* datasketch's MinHash/MinHashLSH with 4 permutations over a 5-bit prime  *)
(* field, banded exactly as the library bands its signature.               *)
(*                                                                         *)
(* Further specifications study functions on their own, each with its own  *)
(* variables: _normalize_python (SpecNorm), the annotation of records      *)
(* (SpecAnnotate), split_code_for_completion of scripts/quality.py         *)
(* (SpecSplit), DocumentationQualityScorer.score (SpecDoc) and             *)
(* scripts/validate_and_version.py (SpecValidate).                         *)
(***************************************************************************)
EXTENDS Integers, Sequences, FiniteSets, TLC

\* Longest input (number of lines over all *_functions.jsonl files).
MaxRecs == 3
\* Longest input of the quality-gate specification.
MaxGateRecs == 2
\* Longest text handed to _normalize_python on its own.
MaxTextLen == 6
\* Longest input of the annotation specification.
MaxAnnRecs == 2
\* Most lines of a code handed to split_code_for_completion.
MaxCodeLines == 4
\* Most parameters and most docstring words handed to the documentation scorer.
MaxParams == 2
MaxDocWords == 2
\* Most lines of a task file handed to validate_and_version.
MaxFileLines == 1
\* Tokens of a shingled text, and the largest shingle size.
MaxTokens == 4
MaxShingle == 3
\* Words of a measured code; blocks radon reports, and their complexity.
MaxPieces == 5
MaxBlocks == 2
MaxBlockComplexity == 2
\* Nodes of a walked syntax tree besides its root.
MaxNodes == 3
\* Lines of the first of two compared codes.
MaxEquivLines == 3
\* Lines of the directory normalize_and_dedup is run on more than once.
MaxRunLines == 3
\* License detections of a scancode report.
MaxDetections == 3
\* Repositories of a discovery manifest.
MaxRepos == 3

---------------------------------------------------------------------------
(* Text helpers: Python's str methods on the model's alphabet.             *)

Whitespace == {" ", "\n", "\t"}

IsSpace(c) == c \in Whitespace

\* str.rstrip(): drop trailing whitespace.
RECURSIVE RStrip(_)
RStrip(s) ==
    IF s = <<>> THEN <<>>
    ELSE IF IsSpace(s[Len(s)]) THEN RStrip(SubSeq(s, 1, Len(s) - 1))
    ELSE s

\* str.lstrip(): drop leading whitespace.
RECURSIVE LStrip(_)
LStrip(s) ==
    IF s = <<>> THEN <<>>
    ELSE IF IsSpace(Head(s)) THEN LStrip(Tail(s))
    ELSE s

\* str.strip()
Strip(s) == LStrip(RStrip(s))

\* str.splitlines(): the lines of s without their line breaks; a final line
\* break opens no further empty line.
RECURSIVE SplitLinesFrom(_, _, _)
SplitLinesFrom(s, cur, acc) ==
    IF s = <<>> THEN (IF cur = <<>> THEN acc ELSE Append(acc, cur))
    ELSE IF Head(s) = "\n" THEN SplitLinesFrom(Tail(s), <<>>, Append(acc, cur))
    ELSE SplitLinesFrom(Tail(s), Append(cur, Head(s)), acc)

SplitLines(s) == SplitLinesFrom(s, <<>>, <<>>)

\* '\n'.join(lines)
RECURSIVE JoinWith(_, _)
JoinWith(sep, parts) ==
    IF parts = <<>> THEN <<>>
    ELSE IF Len(parts) = 1 THEN parts[1]
    ELSE parts[1] \o sep \o JoinWith(sep, Tail(parts))

\* str.split(): the maximal runs of non-whitespace characters.
RECURSIVE SplitFrom(_, _, _)
SplitFrom(s, cur, acc) ==
    IF s = <<>> THEN (IF cur = <<>> THEN acc ELSE Append(acc, cur))
    ELSE IF IsSpace(Head(s))
         THEN SplitFrom(Tail(s), <<>>, IF cur = <<>> THEN acc ELSE Append(acc, cur))
    ELSE SplitFrom(Tail(s), Append(cur, Head(s)), acc)

Split(s) == SplitFrom(s, <<>>, <<>>)

---------------------------------------------------------------------------
(* _normalize_python                                                       *)

\* The loop over lines: a blank line is kept only when the line before it
\* was not blank.
RECURSIVE CollapseBlank(_, _, _)
CollapseBlank(lines, blank, out) ==
    IF lines = <<>> THEN out
    ELSE LET ln == Head(lines) IN
         IF Strip(ln) = <<>>
         THEN IF blank + 1 > 1
              THEN CollapseBlank(Tail(lines), blank + 1, out)
              ELSE CollapseBlank(Tail(lines), blank + 1, Append(out, ln))
         ELSE CollapseBlank(Tail(lines), 0, Append(out, ln))

\* _normalize_python with line 12 cutting one trailing whitespace character
\* off each line instead of all of them.
_normalize_python_TrimOne(code) ==
    LET split == SplitLines(code)
        lines == [n \in 1..Len(split) |->
                    IF split[n] # <<>> /\ IsSpace(split[n][Len(split[n])])
                    THEN SubSeq(split[n], 1, Len(split[n]) - 1)
                    ELSE split[n]]
        out   == CollapseBlank(lines, 0, <<>>)
    IN  Strip(JoinWith(<<"\n">>, out)) \o <<"\n">>

\* _normalize_python without the loop of lines 16-23: every blank line stays.
_normalize_python_NoCollapse(code) ==
    LET split == SplitLines(code)
        lines == [n \in 1..Len(split) |-> RStrip(split[n])]
    IN  Strip(JoinWith(<<"\n">>, lines)) \o <<"\n">>

_normalize_python(code) ==
    LET split == SplitLines(code)
        lines == [n \in 1..Len(split) |-> RStrip(split[n])]
        out   == CollapseBlank(lines, 0, <<>>)
    IN  Strip(JoinWith(<<"\n">>, out)) \o <<"\n">>

---------------------------------------------------------------------------
(* _hash_text: the digest of a text, as a positional encoding of its       *)
(* characters (distinct texts of the model get distinct digests).          *)

CharCode(c) ==
    CASE c = "a" -> 1 [] c = "b" -> 2 [] c = "c" -> 3
      [] c = " " -> 4 [] c = "\n" -> 5 [] c = "\t" -> 6

HashBase == 7

RECURSIVE Encode(_, _)
Encode(s, h) == IF s = <<>> THEN h ELSE Encode(Tail(s), h * HashBase + CharCode(Head(s)))

_hash_text(text) == Encode(text, 0)

---------------------------------------------------------------------------
(* _shingles and the MinHash signature                                     *)

\* tokens[lo:hi] for lo >= 0 (lo and hi count from 0): a negative hi counts
\* from the end of the list, and both ends are brought within the list.
Slice(tokens, lo, hi) ==
    LET stop == IF hi < 0 THEN Len(tokens) + hi ELSE hi
    IN  SubSeq(tokens, lo + 1, IF stop > Len(tokens) THEN Len(tokens) ELSE stop)

\* _shingles giving a text of fewer than k tokens one shingle of all its tokens.
_shingles_WholeWhenShort(tokens, k) ==
    IF tokens # <<>> /\ Len(tokens) < k THEN <<JoinWith(<<" ">>, tokens)>>
    ELSE [i \in 1..(IF Len(tokens) - k + 1 > 0 THEN Len(tokens) - k + 1 ELSE 0) |->
            JoinWith(<<" ">>, Slice(tokens, i - 1, i - 1 + k))]

\* _shingles with one window too few: range(max(0, len(tokens)-k)).
_shingles_OneShort(tokens, k) ==
    LET n == IF Len(tokens) - k > 0 THEN Len(tokens) - k ELSE 0
    IN  [i \in 1..n |-> JoinWith(<<" ">>, Slice(tokens, i - 1, i - 1 + k))]

\* [' '.join(tokens[i:i+k]) for i in range(max(0, len(tokens)-k+1))]
_shingles(tokens, k) ==
    LET n == IF Len(tokens) - k + 1 > 0 THEN Len(tokens) - k + 1 ELSE 0
    IN  [i \in 1..n |-> JoinWith(<<" ">>, Slice(tokens, i - 1, i - 1 + k))]

\* datasketch's constants at the model's width: a Mersenne prime, the
\* largest hash value, and the range of the hash applied to a shingle.
MersennePrime == 31
MaxHash == 15
HashRange == 32

\* The permutation parameters (a, b) of datasketch's MinHash, one pair per
\* permutation; the library draws them once from a fixed seed.
PermA == <<22, 9, 11, 3>>
PermB == <<9, 10, 0, 30>>

\* hashfunc(b): the hash of one shingle.
ShingleHash(s) == _hash_text(s) % HashRange

\* Bitwise and with MaxHash (MaxHash + 1 is a power of two).
MaskHash(v) == v % (MaxHash + 1)

SetMin(S) == CHOOSE x \in S : \A y \in S : x <= y

\* MinHash(num_perm) followed by m.update(s) for every shingle: slot p is
\* the least permuted hash over the shingles, MaxHash when there are none.
MinHash(shingles, perms) ==
    [p \in 1..perms |->
        SetMin({MaxHash} \cup
               { MaskHash((PermA[p] * ShingleHash(shingles[n]) + PermB[p]) % MersennePrime)
                 : n \in 1..Len(shingles) })]

\* The signature of a record, lines 93-97.
Signature(rec, shingle_k, perms) ==
    MinHash(_shingles(Split(rec.code_norm), shingle_k), perms)

---------------------------------------------------------------------------
(* MinHashLSH                                                              *)

\* The (bands, rows) MinHashLSH chooses for a threshold (in hundredths) and
\* 4 permutations: the pair with b * r <= 4 that minimises the sum of its
\* false-positive and false-negative areas, tabulated from the library's
\* search.  The model's configurations all set 4 permutations.
OptimalParam(threshold, num_perm) ==
    CASE threshold < 32 -> [b |-> 4, r |-> 1]
      [] threshold \in 32..38 -> [b |-> 3, r |-> 1]
      [] threshold \in 39..40 -> [b |-> 2, r |-> 1]
      [] threshold \in 41..63 -> [b |-> 2, r |-> 2]
      [] threshold \in 64..68 -> [b |-> 1, r |-> 3]
      [] OTHER -> [b |-> 1, r |-> 4]

\* MinHashLSH(threshold, num_perm): the band layout and empty hashtables.
\* A hashtable entry is <<band, slice of the signature, key>>.
NewLSH(threshold, num_perm) ==
    [b |-> OptimalParam(threshold, num_perm).b,
     r |-> OptimalParam(threshold, num_perm).r,
     tables |-> {}]

\* hashvalues[start:end] of band j (1-based).
Band(m, j, r) == SubSeq(m, (j - 1) * r + 1, j * r)

\* lsh.insert(key, m)
LshInsert(index, key, m) ==
    [index EXCEPT !.tables = @ \cup { <<j, Band(m, j, index.r), key>> : j \in 1..index.b }]

\* lsh.query(m): every key that shares the bucket of m in some band.
LshQuery(index, m) ==
    { t[3] : t \in { u \in index.tables : u[2] = Band(m, u[1], index.r) } }

---------------------------------------------------------------------------
(* The quality gate, lines 49-73                                           *)

\* dict.get(key, default)
Get(d, key, default) == IF key \in DOMAIN d THEN d[key] ELSE default

DefaultMinLoc == 5
DefaultMaxLoc == 400
\* Cyclomatic complexity is a float in the code; the model holds it in
\* tenths (10 is 1.0).
DefaultMaxCyclomatic == 150
DefaultMaxNesting == 5
DefaultCyclomatic == 10
TrivialCyclomatic == 10
DefaultNesting == 0
DefaultLoc == 0

NoDict == [x \in {} |-> 0]

\* cfg.get('quality_filters', {})
QualityFilters(config) == Get(config, "quality_filters", NoDict)

\* (rec.get('metadata') or {}).get(part) or {}
MetaPart(rec, part) == Get(Get(rec, "metadata", NoDict), part, NoDict)

RecLoc(rec)  == Get(rec, "loc", DefaultLoc)
RecCyc(rec)  == Get(MetaPart(rec, "quality"), "cyclomatic_complexity", DefaultCyclomatic)
RecNest(rec) == Get(MetaPart(rec, "quality"), "nesting_depth", DefaultNesting)
RecSynthetic(rec) == Get(MetaPart(rec, "documentation"), "synthetic", FALSE)

\* The test with its sense inverted: the gate is skipped when enabled is
\* True.
GateDisabled_Inverted(qf) == "enabled" \in DOMAIN qf /\ qf.enabled = TRUE

\* qf.get('enabled') is False
GateDisabled(qf) == "enabled" \in DOMAIN qf /\ qf.enabled = FALSE

\* QualityKeep with the first comparison off by one: loc <= min_loc drops.
QualityKeep_OffByOne(rec, qf) ==
    IF GateDisabled(qf) THEN TRUE
    ELSE LET min_loc      == Get(qf, "min_loc", DefaultMinLoc)
             max_loc      == Get(qf, "max_loc", DefaultMaxLoc)
             max_cyc      == Get(qf, "max_cyclomatic", DefaultMaxCyclomatic)
             max_nest     == Get(qf, "max_nesting", DefaultMaxNesting)
             drop_trivial == Get(qf, "drop_trivial", TRUE)
             allow_synth  == Get(qf, "allow_synthetic_docs", TRUE)
             loc  == RecLoc(rec)
             cyc  == RecCyc(rec)
             nest == RecNest(rec)
         IN  IF loc <= min_loc \/ loc > max_loc THEN FALSE
             ELSE IF cyc > max_cyc \/ nest > max_nest THEN FALSE
             ELSE IF drop_trivial /\ loc <= min_loc /\ cyc <= TrivialCyclomatic THEN FALSE
             ELSE IF ~allow_synth /\ RecSynthetic(rec) THEN FALSE
             ELSE TRUE

\* TRUE when the record is appended to items: the checks in the order of
\* the code, each one a `continue`.
QualityKeep(rec, qf) ==
    IF GateDisabled(qf) THEN TRUE
    ELSE LET min_loc      == Get(qf, "min_loc", DefaultMinLoc)
             max_loc      == Get(qf, "max_loc", DefaultMaxLoc)
             max_cyc      == Get(qf, "max_cyclomatic", DefaultMaxCyclomatic)
             max_nest     == Get(qf, "max_nesting", DefaultMaxNesting)
             drop_trivial == Get(qf, "drop_trivial", TRUE)
             allow_synth  == Get(qf, "allow_synthetic_docs", TRUE)
             loc  == RecLoc(rec)
             cyc  == RecCyc(rec)
             nest == RecNest(rec)
         IN  IF loc < min_loc \/ loc > max_loc THEN FALSE
             ELSE IF cyc > max_cyc \/ nest > max_nest THEN FALSE
             ELSE IF drop_trivial /\ loc <= min_loc /\ cyc <= TrivialCyclomatic THEN FALSE
             ELSE IF ~allow_synth /\ RecSynthetic(rec) THEN FALSE
             ELSE TRUE

---------------------------------------------------------------------------
(* One decoded line, lines 42-47                                           *)

\* A line that json.loads rejects.
Malformed == [malformed |-> TRUE]

Decodes(line) == "malformed" \notin DOMAIN line

\* CodeNorm without the test of line 43: every record is normalized as
\* python.
CodeNorm_AnyLanguage(rec) == _normalize_python(rec.code)

\* rec['code_norm'] for the record's language.
CodeNorm(rec) ==
    IF Get(rec, "language", "none") = "python"
    THEN _normalize_python(rec.code)
    ELSE rec.code

\* Annotate with line 47 hashing the code as read instead of code_norm.
Annotate_HashCode(rec, n) ==
    [code_norm |-> CodeNorm(rec), exact_hash |-> _hash_text(rec.code), line |-> n] @@ rec

\* The record after lines 42-47: the decoded object with code_norm and
\* exact_hash set.  `line` is the position of the record in the input; it
\* stands for the identity of the Python object and is not a JSON field.
Annotate(rec, n) ==
    [code_norm |-> CodeNorm(rec), exact_hash |-> _hash_text(CodeNorm(rec)), line |-> n] @@ rec

---------------------------------------------------------------------------
(* Inputs                                                                  *)

T_ab     == <<"a", " ", "b", "\n">>
T_ab_raw == <<"a", " ", "b", " ", "\n", "\n">>
T_bc     == <<"b", " ", "c", "\n">>
T_bca    == <<"b", " ", "c", " ", "a", "\n">>
T_ca     == <<"c", " ", "a", "\n">>
T_a      == <<"a", "\n">>
T_b      == <<"b", "\n">>

\* A record as parse_extract writes it (no metadata), 10 lines long.
Plain(lang, code) == [language |-> lang, code |-> code, loc |-> 10]

\* A record with the quality and documentation metadata the gate reads.
Measured(code, loc, cyc, nest, synthetic) ==
    [language |-> "python", code |-> code, loc |-> loc,
     metadata |-> [quality |-> [cyclomatic_complexity |-> cyc, nesting_depth |-> nest],
                   documentation |-> [synthetic |-> synthetic]]]

\* A record with neither loc nor metadata, as in test_dedup_keeps_first.
NoLoc(code) == [language |-> "python", code |-> code]

\* The lines of the pipeline specification.
Lines ==
    { Plain("python", T_ab), Measured(T_ab_raw, 10, 20, 1, FALSE),
      Plain("javascript", T_ab_raw),
      Plain("python", T_bc), Plain("python", T_bca), Plain("python", T_ca),
      Plain("python", T_a), Plain("python", T_b),
      NoLoc(T_ab), Malformed }

\* lsh_threshold, in hundredths.
Thresholds == {40, 50, 70}

Dedup(threshold) ==
    [shingle_size |-> 2, minhash_permutations |-> 4, lsh_threshold |-> threshold]

\* The configurations of the pipeline specification: no quality_filters
\* section, or the gate switched off.
Configs ==
    { [dedup |-> Dedup(t)] : t \in Thresholds } \cup
    { [dedup |-> Dedup(t), quality_filters |-> [enabled |-> FALSE]] : t \in Thresholds }

\* The lines of the quality-gate specification: one record per check of
\* the gate, on either side of each limit.
GateLines ==
    { Measured(T_ab, 10, 20, 1, FALSE), Measured(T_bc, 4, 20, 1, FALSE),
      Measured(T_ca, 5, 15, 0, FALSE), Measured(T_ab, 5, 10, 0, FALSE),
      Measured(T_bca, 401, 20, 1, FALSE), Measured(T_bc, 400, 150, 5, FALSE),
      Measured(T_ca, 10, 151, 1, FALSE), Measured(T_bca, 10, 20, 6, FALSE),
      Measured(T_a, 10, 20, 1, TRUE), Plain("python", T_b), NoLoc(T_ab),
      Malformed }

GateConfigs ==
    { [dedup |-> Dedup(50)],
      [dedup |-> Dedup(50), quality_filters |-> [enabled |-> TRUE]],
      [dedup |-> Dedup(50), quality_filters |-> [enabled |-> FALSE]],
      [dedup |-> Dedup(50), quality_filters |-> [drop_trivial |-> FALSE, allow_synthetic_docs |-> FALSE]],
      [dedup |-> Dedup(50), quality_filters |->
          [enabled |-> TRUE, min_loc |-> 4, max_loc |-> 10, max_cyclomatic |-> 20, max_nesting |-> 0]] }

\* A text with a run of blank lines and no final newline.
T_gap == <<"a", "\n", "\n", "\n", "b">>

\* A record of another language, and a record with no language at all.
Foreign(lang, code) == [language |-> lang, code |-> code, loc |-> 12, file_path |-> "lib.js"]
Unlabelled(code) == [code |-> code, loc |-> 10]

\* The lines of the annotation specification: the same texts under python,
\* under another language and under no language.
AnnCodes == {T_ab, T_ab_raw, T_gap}

AnnLines ==
    { Plain("python", c) : c \in AnnCodes } \cup
    { Foreign("javascript", c) : c \in AnnCodes } \cup
    { Unlabelled(c) : c \in AnnCodes } \cup
    { Measured(T_ab_raw, 10, 20, 1, FALSE), Malformed }

AnnConfigs ==
    { [dedup |-> Dedup(50)],
      [dedup |-> Dedup(50), quality_filters |-> [enabled |-> FALSE]] }

SeqsUpTo(S, n) == UNION { [1..m -> S] : m \in 0..n }

---------------------------------------------------------------------------
(* State                                                                   *)

VARIABLES
    input,      \* the lines of the *_functions.jsonl files, in reading order
    cfg,        \* the configuration
    pc,         \* "read", "exact", "insert", "filter", "done" or "raised"
    idx,        \* the number of iterations the current loop has finished
    items,      \* records that passed the gate
    seen,       \* exact hashes met by the exact dedup
    uniq,       \* first record of each exact hash
    mh_list,    \* the signatures of uniq
    lsh,        \* the MinHashLSH index
    kept,       \* records kept by the near dedup
    dropped,    \* positions in uniq marked as near duplicates (1-based)
    out,        \* the summary returned
    kept_file,  \* the lines of kept_records.jsonl
    text,       \* the argument of a call of _normalize_python
    norms,      \* its result, then the result of normalizing that result
    src_code,   \* the lines of the code handed to split_code_for_completion
    split_pc,   \* "idle", "call", "split" or "written"
    cands,      \* the candidates split_code_for_completion returned
    completion_file,  \* the candidates build_task_datasets wrote to completion.jsonl
    doc_params, \* the parameter names handed to DocumentationQualityScorer.score
    docstring,  \* the docstring handed to it
    expected_len,  \* the scorer's expected_len
    doc_scores, \* what score returned, for the docstring and for the docstring with a name added
    added,      \* the parameter name added to the docstring, <<>> when none was
    final_dir,  \* the task files validate_and_version reads, by task
    stats_from_norm,  \* the summary handed to validate_and_version, or None
    val_pc,     \* "idle", "call", "returned" or "raised"
    manifest_file,  \* manifest.json
    tok_list,  \* the tokens of a code_norm handed to _shingles
    sh_k,  \* the shingle size handed to it
    sh_out,  \* <<>>, then the shingles and the signature made of them
    cc_code,  \* the code handed to cyclomatic_complexity
    cc_visit,  \* None when radon is not installed, else what cc_visit does with the code
    cc_out,  \* <<>>, then what cyclomatic_complexity returned
    nd_tree,  \* the syntax tree handed to nesting_depth: the kind and the parent of every node
    nd_stack,  \* the nodes the walker is inside of, the root first
    nd_seen,  \* the nodes the walker has entered
    depth,  \* Walker.depth
    max_depth,  \* the nonlocal max_depth
    nd_out,  \* <<>>, then what nesting_depth returned
    a_code,  \* the lines of the first code handed to ast_equivalent
    b_code,  \* the lines of the second
    eq_out,  \* what ast_equivalent returned for (a, b), then for (b, a)
    dir_files,  \* the files of the directory normalize_and_dedup is run on again, in listing order
    run_no,  \* the number of the current run on that directory
    past_runs,  \* how each earlier run ended: its summary and the kept file it left
    snapshot_info,  \* what the gate finds for one snapshot: the ingest license hint and the two reports it reads
    scan_env,  \* whether docker is there, the security section of the config, the allowed licenses
    gated_out,  \* <<>>, then what security_and_license_gate returned
    flow_manifest,  \* the discovery manifest: for every repository, how its ingest ends and what the gate finds
    max_repos,  \* the max_repos parameter of the flow
    flow_pc,  \* "ingest", "gate", "parse", "tasks", "validate", "done", "early" or "failed"
    flow_i,  \* the number of iterations the current loop has finished
    gated_results,  \* the repositories whose gate returned ok, by position in the manifest
    ast_dirs,  \* the results of the parse tasks
    flow_log  \* the tasks that have finished, in order

\* The state of normalize_and_dedup.
dedup_vars == <<input, cfg, pc, idx, items, seen, uniq, mh_list, lsh, kept, dropped, out, kept_file>>

\* The state of the calls of _normalize_python.
norm_vars == <<text, norms>>

\* The state of the completion split.
split_vars == <<src_code, split_pc, cands, completion_file>>

\* The state of the documentation scorer.
doc_vars == <<doc_params, docstring, expected_len, doc_scores, added>>

\* The state of validate_and_version.
val_vars == <<final_dir, stats_from_norm, val_pc, manifest_file>>

\* The variables of the functions modelled first.
old_vars == <<dedup_vars, norm_vars, split_vars, doc_vars, val_vars>>

\* The state of the other functions, and what a step of one leaves alone.

shingle_vars == <<tok_list, sh_k, sh_out>>

cyc_vars == <<cc_code, cc_visit, cc_out>>

nest_vars == <<nd_tree, nd_stack, nd_seen, depth, max_depth, nd_out>>

equiv_vars == <<a_code, b_code, eq_out>>

run_vars == <<dir_files, run_no, past_runs>>

sec_vars == <<snapshot_info, scan_env, gated_out>>

flow_vars == <<flow_manifest, max_repos, flow_pc, flow_i, gated_results, ast_dirs, flow_log>>

frame_shingle == <<old_vars, cyc_vars, nest_vars, equiv_vars, run_vars, sec_vars, flow_vars>>

frame_cyc == <<old_vars, shingle_vars, nest_vars, equiv_vars, run_vars, sec_vars, flow_vars>>

frame_nest == <<old_vars, shingle_vars, cyc_vars, equiv_vars, run_vars, sec_vars, flow_vars>>

frame_equiv == <<old_vars, shingle_vars, cyc_vars, nest_vars, run_vars, sec_vars, flow_vars>>

frame_run == <<old_vars, shingle_vars, cyc_vars, nest_vars, equiv_vars, sec_vars, flow_vars>>

\* What a new run on the same directory leaves alone besides the directory.
frame_rerun == <<norm_vars, split_vars, doc_vars, val_vars, shingle_vars, cyc_vars, nest_vars, equiv_vars, sec_vars, flow_vars>>

frame_sec == <<old_vars, shingle_vars, cyc_vars, nest_vars, equiv_vars, run_vars, flow_vars>>

frame_flow == <<old_vars, shingle_vars, cyc_vars, nest_vars, equiv_vars, run_vars, sec_vars>>

ext_vars == <<shingle_vars, cyc_vars, nest_vars, equiv_vars, run_vars, sec_vars, flow_vars>>

\* The state of the functions studied on their own.
pure_vars == <<norm_vars, split_vars, doc_vars, val_vars, ext_vars>>

vars == <<dedup_vars, pure_vars>>

NoSummary == [returned |-> FALSE]

DedupCfg == Get(cfg, "dedup", NoDict)
shingle_k     == Get(DedupCfg, "shingle_size", 7)
perms         == Get(DedupCfg, "minhash_permutations", 128)
lsh_threshold == Get(DedupCfg, "lsh_threshold", 85)

Start ==
    /\ pc = "read"
    /\ idx = 0
    /\ items = <<>>
    /\ seen = {}
    /\ uniq = <<>>
    /\ mh_list = <<>>
    /\ lsh = NewLSH(lsh_threshold, perms)
    /\ kept = <<>>
    /\ dropped = {}
    /\ out = NoSummary
    /\ kept_file = <<>>

\* No call of _normalize_python on its own is under way.
NormIdle ==
    /\ text = <<>>
    /\ norms = <<>>

\* No completion split is under way.
SplitIdle ==
    /\ src_code = <<>>
    /\ split_pc = "idle"
    /\ cands = <<>>
    /\ completion_file = <<>>

\* No docstring is being scored.
DocIdle ==
    /\ doc_params = <<>>
    /\ docstring = <<>>
    /\ expected_len = 60
    /\ doc_scores = <<>>
    /\ added = <<>>

\* validate_and_version is not running.
ValIdle ==
    /\ final_dir = NoDict
    /\ stats_from_norm = NoDict
    /\ val_pc = "idle"
    /\ manifest_file = NoDict

\* No record is being shingled on its own.
ShingleIdle ==
    /\ tok_list = <<>>
    /\ sh_k = 7
    /\ sh_out = <<>>

\* No complexity is being measured.
CycIdle ==
    /\ cc_code = <<>>
    /\ cc_visit = [null |-> TRUE]
    /\ cc_out = <<>>

\* No tree is being walked.
NestIdle ==
    /\ nd_tree = NoDict
    /\ nd_stack = <<>>
    /\ nd_seen = {}
    /\ depth = 0
    /\ max_depth = 0
    /\ nd_out = <<>>

\* No two codes are being compared.
EquivIdle ==
    /\ a_code = <<>>
    /\ b_code = <<>>
    /\ eq_out = <<>>

\* normalize_and_dedup is run once, on lines given as such.
RunIdle ==
    /\ dir_files = <<>>
    /\ run_no = 1
    /\ past_runs = <<>>

\* No snapshot is at the gate on its own.
SecurityIdle ==
    /\ snapshot_info = NoDict
    /\ scan_env = NoDict
    /\ gated_out = <<>>

\* The flow is not running.
FlowIdle ==
    /\ flow_manifest = <<>>
    /\ max_repos = 0
    /\ flow_pc = "idle"
    /\ flow_i = 0
    /\ gated_results = <<>>
    /\ ast_dirs = <<>>
    /\ flow_log = <<>>

ExtIdle == ShingleIdle /\ CycIdle /\ NestIdle /\ EquivIdle /\ RunIdle /\ SecurityIdle /\ FlowIdle

PureIdle == NormIdle /\ SplitIdle /\ DocIdle /\ ValIdle /\ ExtIdle

\* normalize_and_dedup is not running.
DedupIdle ==
    /\ input = <<>>
    /\ cfg = NoDict
    /\ pc = "idle"
    /\ idx = 0
    /\ items = <<>>
    /\ seen = {}
    /\ uniq = <<>>
    /\ mh_list = <<>>
    /\ lsh = NoDict
    /\ kept = <<>>
    /\ dropped = {}
    /\ out = NoSummary
    /\ kept_file = <<>>

Init ==
    /\ input \in SeqsUpTo(Lines, MaxRecs)
    /\ cfg \in Configs
    /\ Start
    /\ PureIdle

InitGate ==
    /\ input \in SeqsUpTo(GateLines, MaxGateRecs)
    /\ cfg \in GateConfigs
    /\ Start
    /\ PureIdle

InitAnnotate ==
    /\ input \in SeqsUpTo(AnnLines, MaxAnnRecs)
    /\ cfg \in AnnConfigs
    /\ Start
    /\ PureIdle

---------------------------------------------------------------------------
(* normalize_and_dedup, one loop iteration per action                      *)

\* Lines 41-73 for a line that decodes: annotate it, and append it to items
\* unless a check of the gate drops it.
ReadRecord ==
    /\ pc = "read"
    /\ idx < Len(input)
    /\ Decodes(input[idx + 1])
    /\ LET rec == Annotate(input[idx + 1], idx + 1)
       IN  items' = IF QualityKeep(rec, QualityFilters(cfg)) THEN Append(items, rec) ELSE items
    /\ idx' = idx + 1
    /\ UNCHANGED <<pure_vars, input, cfg, pc, seen, uniq, mh_list, lsh, kept, dropped, out, kept_file>>

\* Line 42 for a line that does not decode: json.loads raises, nothing
\* catches it, and the call ends without a summary or a kept file.
ReadMalformed ==
    /\ pc = "read"
    /\ idx < Len(input)
    /\ ~Decodes(input[idx + 1])
    /\ pc' = "raised"
    /\ UNCHANGED <<pure_vars, input, cfg, idx, items, seen, uniq, mh_list, lsh, kept, dropped, out, kept_file>>

\* The end of the input: lines 76-77.
EndRead ==
    /\ pc = "read"
    /\ idx = Len(input)
    /\ pc' = "exact"
    /\ idx' = 0
    /\ seen' = {}
    /\ uniq' = <<>>
    /\ UNCHANGED <<pure_vars, input, cfg, items, mh_list, lsh, kept, dropped, out, kept_file>>

\* ExactStep that never records a hash as seen (line 82 missing).
ExactStep_NoMark ==
    /\ pc = "exact"
    /\ idx < Len(items)
    /\ LET rec == items[idx + 1]
           h   == rec.exact_hash
       IN  IF h \in seen
           THEN UNCHANGED <<seen, uniq>>
           ELSE /\ UNCHANGED seen
                /\ uniq' = Append(uniq, rec)
    /\ idx' = idx + 1
    /\ UNCHANGED <<pure_vars, input, cfg, pc, items, mh_list, lsh, kept, dropped, out, kept_file>>

\* ExactStep with the later record replacing the earlier one of the same
\* hash (a dict keyed by hash that is overwritten).
ExactStep_KeepLast ==
    /\ pc = "exact"
    /\ idx < Len(items)
    /\ LET rec == items[idx + 1]
           h   == rec.exact_hash
       IN  IF h \in seen
           THEN /\ uniq' = [u \in 1..Len(uniq) |-> IF uniq[u].exact_hash = h THEN rec ELSE uniq[u]]
                /\ UNCHANGED seen
           ELSE /\ seen' = seen \cup {h}
                /\ uniq' = Append(uniq, rec)
    /\ idx' = idx + 1
    /\ UNCHANGED <<pure_vars, input, cfg, pc, items, mh_list, lsh, kept, dropped, out, kept_file>>

\* Lines 78-83.
ExactStep ==
    /\ pc = "exact"
    /\ idx < Len(items)
    /\ LET rec == items[idx + 1]
           h   == rec.exact_hash
       IN  IF h \in seen
           THEN UNCHANGED <<seen, uniq>>
           ELSE /\ seen' = seen \cup {h}
                /\ uniq' = Append(uniq, rec)
    /\ idx' = idx + 1
    /\ UNCHANGED <<pure_vars, input, cfg, pc, items, mh_list, lsh, kept, dropped, out, kept_file>>

\* Lines 86-91.
EndExact ==
    /\ pc = "exact"
    /\ idx = Len(items)
    /\ pc' = "insert"
    /\ idx' = 0
    /\ lsh' = NewLSH(lsh_threshold, perms)
    /\ mh_list' = <<>>
    /\ UNCHANGED <<pure_vars, input, cfg, items, seen, uniq, kept, dropped, out, kept_file>>

\* Lines 92-99.
InsertStep ==
    /\ pc = "insert"
    /\ idx < Len(uniq)
    /\ LET m == Signature(uniq[idx + 1], shingle_k, perms)
       IN  /\ mh_list' = Append(mh_list, m)
           /\ lsh' = LshInsert(lsh, idx + 1, m)
    /\ idx' = idx + 1
    /\ UNCHANGED <<pure_vars, input, cfg, pc, items, seen, uniq, kept, dropped, out, kept_file>>

\* Lines 102-103.
EndInsert ==
    /\ pc = "insert"
    /\ idx = Len(uniq)
    /\ pc' = "filter"
    /\ idx' = 0
    /\ kept' = <<>>
    /\ dropped' = {}
    /\ UNCHANGED <<pure_vars, input, cfg, items, seen, uniq, mh_list, lsh, out, kept_file>>

\* NewlyDropped seeing only the records before position i, as if the index
\* held no later record when i is queried.
NewlyDropped_Previous(index, m, i) == { j \in LshQuery(index, m) : j < i }

\* Only the neighbor that comes right after position i.
NewlyDropped_NextOnly(index, m, i) == LshQuery(index, m) \cap {i + 1}

\* The positions lines 107-111 add to dropped for position i.
NewlyDropped(index, m, i) == LshQuery(index, m) \ {i}

\* FilterStep with a dropped record passing its mark on: the neighbours of
\* a record marked dropped are marked dropped too (whole clusters go).
FilterStep_Transitive ==
    /\ pc = "filter"
    /\ idx < Len(mh_list)
    /\ LET i == idx + 1
       IN  /\ dropped' = dropped \cup NewlyDropped(lsh, mh_list[i], i)
           /\ kept' = IF i \in dropped THEN kept ELSE Append(kept, uniq[i])
    /\ idx' = idx + 1
    /\ UNCHANGED <<pure_vars, input, cfg, pc, items, seen, uniq, mh_list, lsh, out, kept_file>>

\* FilterStep without the `continue` of line 106: a record marked dropped
\* is kept all the same.
FilterStep_NoSkip ==
    /\ pc = "filter"
    /\ idx < Len(mh_list)
    /\ LET i == idx + 1
       IN  /\ dropped' = dropped \cup NewlyDropped(lsh, mh_list[i], i)
           /\ kept' = Append(kept, uniq[i])
    /\ idx' = idx + 1
    /\ UNCHANGED <<pure_vars, input, cfg, pc, items, seen, uniq, mh_list, lsh, out, kept_file>>

\* Lines 104-112.
FilterStep ==
    /\ pc = "filter"
    /\ idx < Len(mh_list)
    /\ LET i == idx + 1
       IN  IF i \in dropped
           THEN UNCHANGED <<kept, dropped>>
           ELSE /\ dropped' = dropped \cup NewlyDropped(lsh, mh_list[i], i)
                /\ kept' = Append(kept, uniq[i])
    /\ idx' = idx + 1
    /\ UNCHANGED <<pure_vars, input, cfg, pc, items, seen, uniq, mh_list, lsh, out, kept_file>>

\* The summary with total counting every line read instead of items.
Summary_TotalRead ==
    [total |-> Len(input), exact_unique |-> Len(uniq), near_unique |-> Len(kept)]

\* The summary, lines 114-119.
Summary ==
    [total |-> Len(items), exact_unique |-> Len(uniq), near_unique |-> Len(kept)]

\* WriteOut writing the gate's output instead of the near dedup's.
WriteOut_Items ==
    /\ pc = "filter"
    /\ idx = Len(mh_list)
    /\ out' = Summary
    /\ kept_file' = items
    /\ pc' = "done"
    /\ UNCHANGED <<pure_vars, input, cfg, idx, items, seen, uniq, mh_list, lsh, kept, dropped>>

\* Lines 114-125: the summary is built, kept_records.jsonl is written anew
\* and the summary returned.
WriteOut ==
    /\ pc = "filter"
    /\ idx = Len(mh_list)
    /\ out' = Summary
    /\ kept_file' = kept
    /\ pc' = "done"
    /\ UNCHANGED <<pure_vars, input, cfg, idx, items, seen, uniq, mh_list, lsh, kept, dropped>>

\* File names, and the pattern of line 39 after its star.
FunctionsName == <<"a", "_", "f", "u", "n", "c", "t", "i", "o", "n", "s", ".", "j", "s", "o", "n", "l">>
ClassesName   == <<"a", "_", "c", "l", "a", "s", "s", "e", "s", ".", "j", "s", "o", "n", "l">>
KeptName      == <<"k", "e", "p", "t", "_", "r", "e", "c", "o", "r", "d", "s", ".", "j", "s", "o", "n", "l">>
FunctionsSuffix == <<"_", "f", "u", "n", "c", "t", "i", "o", "n", "s", ".", "j", "s", "o", "n", "l">>

EndsWith(s, suffix) ==
    Len(s) >= Len(suffix) /\ SubSeq(s, Len(s) - Len(suffix) + 1, Len(s)) = suffix

\* A glob of *.jsonl in the place of *_functions.jsonl.
GlobMatch_AnyJsonl(name) == EndsWith(name, <<".", "j", "s", "o", "n", "l">>)

\* ast_dir.glob('*_functions.jsonl'): the star stands for any run of
\* characters, the empty one included.
GlobMatch(name) == EndsWith(name, FunctionsSuffix)

\* The directory as a run finds it: its files, and kept_records.jsonl as
\* the last run left it.
DirNow == Append(dir_files, [name |-> KeptName, lines |-> kept_file])

\* Lines 39-41: the lines of the files the glob returns, file after file.
RECURSIVE ReadDir(_)
ReadDir(files) ==
    IF files = <<>> THEN <<>>
    ELSE (IF GlobMatch(Head(files).name) THEN Head(files).lines ELSE <<>>)
             \o ReadDir(Tail(files))

\* The retries of t_normalize_dedup in pipeline.py.
Retries == 2

\* normalize_and_dedup is called again on the same directory with the same
\* config, after a run that returned or raised: lines 36-38 and lines 90-91,
\* 102-103 start afresh, the kept file of the last run is still there.
Rerun ==
    /\ pc \in {"done", "raised"}
    /\ dir_files # <<>>
    /\ run_no <= Retries
    /\ past_runs' = Append(past_runs, [pc |-> pc, out |-> out, kept_file |-> kept_file])
    /\ run_no' = run_no + 1
    /\ input' = ReadDir(DirNow)
    /\ pc' = "read"
    /\ idx' = 0
    /\ items' = <<>>
    /\ seen' = {}
    /\ uniq' = <<>>
    /\ mh_list' = <<>>
    /\ lsh' = NewLSH(lsh_threshold, perms)
    /\ kept' = <<>>
    /\ dropped' = {}
    /\ out' = NoSummary
    /\ UNCHANGED <<cfg, kept_file, dir_files, frame_rerun>>

Next ==
    \/ ReadRecord
    \/ ReadMalformed
    \/ EndRead
    \/ ExactStep
    \/ EndExact
    \/ InsertStep
    \/ EndInsert
    \/ FilterStep
    \/ WriteOut

Spec == Init /\ [][Next]_vars

\* The lines of a directory that is processed again.
RunLines ==
    { Plain("python", T_ab), Measured(T_ab_raw, 10, 20, 1, FALSE), Plain("python", T_bc),
      Plain("python", T_a), Plain("python", T_b), Malformed }

\* A directory: a file of functions, before or after a file the glob does
\* not match.
Dirs ==
    UNION { { <<[name |-> FunctionsName, lines |-> ls]>>,
              <<[name |-> ClassesName, lines |-> <<Plain("python", T_ca)>>],
                [name |-> FunctionsName, lines |-> ls]>> }
            : ls \in SeqsUpTo(RunLines, MaxRunLines) }

InitRerun ==
    /\ dir_files \in Dirs
    /\ run_no = 1
    /\ past_runs = <<>>
    /\ input = ReadDir(dir_files)
    /\ cfg \in AnnConfigs
    /\ Start
    /\ NormIdle
    /\ SplitIdle
    /\ DocIdle
    /\ ValIdle
    /\ ShingleIdle
    /\ CycIdle
    /\ NestIdle
    /\ EquivIdle
    /\ SecurityIdle
    /\ FlowIdle

NextRerun ==
    \/ Next
    \/ Rerun

SpecRerun == InitRerun /\ [][NextRerun]_vars

SpecGate == InitGate /\ [][Next]_vars

SpecAnnotate == InitAnnotate /\ [][Next]_vars

---------------------------------------------------------------------------
(* Definitions shared by the properties                                    *)

\* The number of input lines the read loop has handled.
LinesRead == IF pc \in {"read", "raised"} THEN idx ELSE Len(input)

\* The positions of the handled lines whose record passes the gate.
Passing ==
    { n \in 1..LinesRead :
        /\ Decodes(input[n])
        /\ QualityKeep(Annotate(input[n], n), QualityFilters(cfg)) }

\* The configuration sets quality_filters.enabled to false.
GateOff ==
    /\ "quality_filters" \in DOMAIN cfg
    /\ "enabled" \in DOMAIN cfg.quality_filters
    /\ cfg.quality_filters.enabled = FALSE

AfterExact == pc \in {"insert", "filter", "done"}

\* The input positions of the records of a sequence.
LinesOf(recs) == { recs[n].line : n \in 1..Len(recs) }

\* The near dedup of lines 90-112 as a function of the signatures and the
\* threshold: the index with every signature inserted, then the filter loop
\* from position i on.  The result is the set of kept positions.
RECURSIVE InsertAll(_, _, _)
InsertAll(index, sigs, n) ==
    IF n > Len(sigs) THEN index
    ELSE InsertAll(LshInsert(index, n, sigs[n]), sigs, n + 1)

IndexAt(sigs, threshold) == InsertAll(NewLSH(threshold, perms), sigs, 1)

RECURSIVE FilterFrom(_, _, _, _, _)
FilterFrom(index, sigs, i, keptpos, droppedpos) ==
    IF i > Len(sigs) THEN keptpos
    ELSE IF i \in droppedpos THEN FilterFrom(index, sigs, i + 1, keptpos, droppedpos)
    ELSE FilterFrom(index, sigs, i + 1, keptpos \cup {i},
                    droppedpos \cup NewlyDropped(index, sigs[i], i))

NearKeptAt(sigs, threshold) == FilterFrom(IndexAt(sigs, threshold), sigs, 1, {}, {})

\* Positions i and j are LSH neighbours at a threshold.
NeighboursAt(sigs, threshold, i, j) == j \in LshQuery(IndexAt(sigs, threshold), sigs[i])

\* The neighbour relation at a threshold is transitive: every cluster is a
\* clique.
ClusteredAt(sigs, threshold) ==
    \A i, j, k \in 1..Len(sigs) :
        NeighboursAt(sigs, threshold, i, j) /\ NeighboursAt(sigs, threshold, j, k)
            => NeighboursAt(sigs, threshold, i, k)

\* Every neighbour pair at threshold hi is a neighbour pair at threshold lo.
NestedAt(sigs, lo, hi) ==
    \A i, j \in 1..Len(sigs) :
        NeighboursAt(sigs, hi, i, j) => NeighboursAt(sigs, lo, i, j)

---------------------------------------------------------------------------
(* C1                                                                      *)

\* The positions among P of the records whose code_norm is c.
WithCodeNorm(P, c) == { n \in P : CodeNorm(input[n]) = c }

\* C1 as claimed, in the runs where no quality check can drop a record (the
\* gate is switched off): of the input records that share a code_norm,
\* exactly one is in the kept output, and it is the first in input order.
C1_ExactlyOneKept ==
    (pc = "done" /\ GateOff) =>
        \A n \in 1..Len(input) :
            LET same == WithCodeNorm(1..Len(input), CodeNorm(input[n]))
            IN  Cardinality(same) >= 2 => same \cap LinesOf(kept_file) = {SetMin(same)}

\* C1 amended: of the records that pass the gate and share a code_norm,
\* exactly one survives exact dedup, the first in input order; no later one
\* is ever in the kept output; and the first is missing from the kept output
\* only when near dedup dropped it as a neighbour of an earlier kept record.
C1_FirstSurvivesExact ==
    /\ AfterExact =>
         \A n \in Passing :
            LET same == WithCodeNorm(Passing, CodeNorm(input[n]))
            IN  /\ same \cap LinesOf(uniq) = {SetMin(same)}
                /\ Cardinality({ u \in 1..Len(uniq) : uniq[u].line = SetMin(same) }) = 1
    /\ pc = "done" =>
         /\ \A n \in LinesOf(kept_file) : n = SetMin(WithCodeNorm(Passing, CodeNorm(input[n])))
         /\ \A u \in 1..Len(uniq) :
               uniq[u].line \notin LinesOf(kept_file) =>
                  \E v \in 1..(u - 1) :
                     /\ uniq[v].line \in LinesOf(kept_file)
                     /\ v \in LshQuery(lsh, mh_list[u])

\* Two gate-passing records whose code differs and whose code_norm is the
\* same; the first is in the kept output and the second is not.
C1_Witness ==
    /\ pc = "done"
    /\ \E n, m \in Passing :
          /\ n < m
          /\ input[n].code # input[m].code
          /\ CodeNorm(input[n]) = CodeNorm(input[m])
          /\ n \in LinesOf(kept_file)
          /\ m \notin LinesOf(kept_file)

---------------------------------------------------------------------------
(* C2                                                                      *)

\* C2 as claimed: for the input, shingle size and permutation count of the
\* run, every higher threshold keeps at least as many records.
C2_MonotoneInThreshold ==
    pc = "done" =>
        \A t \in Thresholds :
            t > lsh_threshold => Cardinality(NearKeptAt(mh_list, t)) >= out.near_unique

\* C2 amended: raising the threshold never decreases the number of kept
\* records when the neighbour relation at the lower threshold is transitive
\* (every cluster is a clique) and every neighbour pair of the higher
\* threshold is one of the lower threshold.
C2_MonotoneWhenClustered ==
    pc = "done" =>
        \A t \in Thresholds :
            (/\ t > lsh_threshold
             /\ ClusteredAt(mh_list, lsh_threshold)
             /\ NestedAt(mh_list, lsh_threshold, t))
            => Cardinality(NearKeptAt(mh_list, t)) >= out.near_unique

\* A run that dropped a near duplicate, and a higher threshold that meets
\* the two conditions and keeps more records.
C2_Witness ==
    /\ pc = "done"
    /\ out.near_unique < out.exact_unique
    /\ \E t \in Thresholds :
          /\ t > lsh_threshold
          /\ ClusteredAt(mh_list, lsh_threshold)
          /\ NestedAt(mh_list, lsh_threshold, t)
          /\ Cardinality(NearKeptAt(mh_list, t)) > out.near_unique

---------------------------------------------------------------------------
(* C3                                                                      *)

\* The positions of the lines that decode.
WellFormed == { n \in 1..Len(input) : Decodes(input[n]) }

\* C3 as claimed: a line that does not decode is skipped.  The call does
\* not end in an exception, and when it is done every well-formed record
\* that passes the gate, before or after the bad line, is in items and
\* counted in total, while the bad line is not.
C3_MalformedSkipped ==
    (\E n \in 1..Len(input) : ~Decodes(input[n])) =>
        /\ pc # "raised"
        /\ pc = "done" =>
             /\ LinesOf(items) =
                  { n \in WellFormed : QualityKeep(Annotate(input[n], n), QualityFilters(cfg)) }
             /\ out.total = Len(items)

---------------------------------------------------------------------------
(* C4                                                                      *)

\* C4 as claimed: under a configuration with a dedup section and no
\* quality_filters section no record is dropped on quality grounds, so
\* every input record is counted in total and reaches exact dedup.
C4_NoFiltersSectionKeepsAll ==
    (pc = "done" /\ "dedup" \in DOMAIN cfg /\ "quality_filters" \notin DOMAIN cfg) =>
        /\ out.total = Len(input)
        /\ out.exact_unique = Cardinality({ CodeNorm(input[n]) : n \in 1..Len(input) })

---------------------------------------------------------------------------
(* C5                                                                      *)

\* C5: with quality_filters.enabled false every record read is in items, in
\* input order, with its code_norm and with the hash of that code_norm as
\* exact_hash, whatever its loc, complexity, nesting or synthetic flag; each
\* of them then meets exact dedup (its hash is the hash of a record of uniq)
\* and near dedup (each record of uniq has a signature in the index and is
\* in the end kept or marked dropped).
C5_DisabledGateKeepsAll ==
    GateOff =>
        /\ Len(items) = LinesRead
        /\ \A n \in 1..Len(items) :
              /\ items[n].line = n
              /\ items[n].code = input[n].code
              /\ items[n].code_norm = CodeNorm(input[n])
              /\ items[n].exact_hash = _hash_text(CodeNorm(input[n]))
        /\ AfterExact =>
              \A n \in 1..Len(items) :
                 \E u \in 1..Len(uniq) : uniq[u].exact_hash = items[n].exact_hash
        /\ pc \in {"filter", "done"} =>
              /\ Len(mh_list) = Len(uniq)
              /\ \A u \in 1..Len(uniq) : u \in LshQuery(lsh, mh_list[u])
        /\ pc = "done" =>
              /\ out.total = Len(input)
              /\ \A u \in 1..Len(uniq) : uniq[u].line \in LinesOf(kept) \/ u \in dropped

\* The failed checks of the enabled gate for a record, by name.
FailedChecks(rec, qf) ==
    LET min_loc == Get(qf, "min_loc", DefaultMinLoc)
        max_loc == Get(qf, "max_loc", DefaultMaxLoc)
        max_cyc == Get(qf, "max_cyclomatic", DefaultMaxCyclomatic)
        max_nest == Get(qf, "max_nesting", DefaultMaxNesting)
    IN  { c \in {"min_loc", "max_loc", "max_cyclomatic", "max_nesting", "trivial", "synthetic"} :
            \/ c = "min_loc" /\ RecLoc(rec) < min_loc
            \/ c = "max_loc" /\ RecLoc(rec) > max_loc
            \/ c = "max_cyclomatic" /\ RecCyc(rec) > max_cyc
            \/ c = "max_nesting" /\ RecNest(rec) > max_nest
            \/ c = "trivial" /\ Get(qf, "drop_trivial", TRUE)
                             /\ RecLoc(rec) <= min_loc /\ RecCyc(rec) <= TrivialCyclomatic
            \/ c = "synthetic" /\ ~Get(qf, "allow_synthetic_docs", TRUE) /\ RecSynthetic(rec) }

\* The gate is off, the run is done, and a record that would fail a check
\* of the enabled default gate is in the kept output.
C5_Witness ==
    /\ pc = "done"
    /\ GateOff
    /\ \E n \in LinesOf(kept_file) : FailedChecks(input[n], NoDict) # {}

---------------------------------------------------------------------------
(* C6                                                                      *)

\* C6: with the gate enabled a record read is missing from items exactly
\* when at least one of the six drop conditions holds for it.  The
\* conditions are a set: no order of evaluation enters the outcome.
C6_DroppedIffSomeCheckFails ==
    ~GateOff =>
        \A n \in 1..LinesRead :
            Decodes(input[n]) =>
                (n \notin LinesOf(items) <=> FailedChecks(input[n], QualityFilters(cfg)) # {})

\* The gate is enabled; one record was dropped by the trivial check alone,
\* another by two checks at once, or a record at a limit was kept.
C6_Witness ==
    /\ pc = "done"
    /\ ~GateOff
    /\ \E n \in 1..Len(input) :
          /\ Decodes(input[n])
          /\ FailedChecks(input[n], QualityFilters(cfg)) = {"trivial"}
          /\ n \notin LinesOf(items)
    /\ \E n \in LinesOf(items) : RecLoc(input[n]) = Get(QualityFilters(cfg), "max_loc", DefaultMaxLoc)

---------------------------------------------------------------------------
(* C7                                                                      *)

\* C7 as claimed, in the runs whose configuration sets
\* quality_filters.enabled to true and whose records all carry loc and
\* metadata: total is the number of records read from the input.
C7_TotalIsInputCount ==
    (/\ pc = "done"
     /\ "enabled" \in DOMAIN QualityFilters(cfg)
     /\ QualityFilters(cfg).enabled = TRUE
     /\ \A n \in 1..Len(input) : {"loc", "metadata"} \subseteq DOMAIN input[n])
    => out.total = Len(input)

\* C7 amended: total is the number of records that passed the quality gate;
\* it is the number of records read when the gate is switched off.
C7_TotalIsGateCount ==
    pc = "done" =>
        /\ out.total = Cardinality(Passing)
        /\ GateOff => out.total = Len(input)

\* A finished run in which the gate dropped some records and kept others.
C7_Witness ==
    /\ pc = "done"
    /\ out.total > 0
    /\ out.total < Len(input)

---------------------------------------------------------------------------
(* C8                                                                      *)

\* C8 as claimed: every record of the kept output carries code_norm, the
\* hash of that code_norm as exact_hash, metadata.quality and
\* metadata.documentation, as they were when the record entered items.
C8_KeptCarryAnnotations ==
    \A k \in 1..Len(kept_file) :
        LET rec == kept_file[k] IN
        /\ "code_norm" \in DOMAIN rec
        /\ "exact_hash" \in DOMAIN rec
        /\ rec.exact_hash = _hash_text(rec.code_norm)
        /\ "metadata" \in DOMAIN rec
        /\ "quality" \in DOMAIN rec.metadata
        /\ "documentation" \in DOMAIN rec.metadata
        /\ \E n \in 1..Len(items) : items[n] = rec

---------------------------------------------------------------------------
(* C9                                                                      *)

\* s is strictly increasing.
Increasing(s) == \A a, b \in 1..Len(s) : a < b => s[a] < s[b]

\* C9: the records kept, and the lines of the kept file, are input records
\* in input order, each at most once (their input positions are strictly
\* increasing and each is the input record of its position), and no two of
\* them have the same exact_hash.
C9_NoDuplicateInOutput ==
    \A recs \in {kept, kept_file} :
        /\ Increasing([k \in 1..Len(recs) |-> recs[k].line])
        /\ \A k \in 1..Len(recs) :
              /\ recs[k].line \in 1..Len(input)
              /\ recs[k] = Annotate(input[recs[k].line], recs[k].line)
        /\ \A a, b \in 1..Len(recs) : a # b => recs[a].exact_hash # recs[b].exact_hash

\* A finished run with two records in the kept file and an input record
\* that exact dedup removed.
C9_Witness ==
    /\ pc = "done"
    /\ Len(kept_file) >= 2
    /\ Len(uniq) < Len(items)

---------------------------------------------------------------------------
(* C10                                                                     *)

\* C10: in the summary near_unique <= exact_unique <= total, exact_unique
\* is the number of distinct code_norm values among the records that passed
\* the gate, and the kept file has near_unique lines.
C10_SummaryCounts ==
    pc = "done" =>
        /\ out.near_unique <= out.exact_unique
        /\ out.exact_unique <= out.total
        /\ out.exact_unique = Cardinality({ CodeNorm(input[n]) : n \in Passing })
        /\ Len(kept_file) = out.near_unique

\* A summary whose three counts differ.
C10_Witness ==
    /\ pc = "done"
    /\ out.near_unique < out.exact_unique
    /\ out.exact_unique < out.total
    /\ Len(kept_file) = out.near_unique

---------------------------------------------------------------------------
(* _normalize_python on its own: a text is normalized, and the result is   *)
(* normalized again.                                                       *)

NormAlphabet == {"a", " ", "\n", "\t"}

Texts == SeqsUpTo(NormAlphabet, MaxTextLen)

InitNorm ==
    /\ text \in Texts
    /\ norms = <<>>
    /\ DedupIdle
    /\ ExtIdle
    /\ SplitIdle
    /\ DocIdle
    /\ ValIdle

\* norm = _normalize_python(code)
NormalizeText ==
    /\ norms = <<>>
    /\ norms' = <<_normalize_python(text)>>
    /\ UNCHANGED <<text, dedup_vars, ext_vars, split_vars, doc_vars, val_vars>>

\* _normalize_python(norm)
NormalizeAgain ==
    /\ Len(norms) = 1
    /\ norms' = Append(norms, _normalize_python(norms[1]))
    /\ UNCHANGED <<text, dedup_vars, ext_vars, split_vars, doc_vars, val_vars>>

NextNorm ==
    \/ NormalizeText
    \/ NormalizeAgain

SpecNorm == InitNorm /\ [][NextNorm]_vars

\* s holds sub as a run of consecutive characters.
Contains(s, sub) ==
    \E i \in 1..(Len(s) - Len(sub) + 1) : SubSeq(s, i, i + Len(sub) - 1) = sub

---------------------------------------------------------------------------
\* C11: normalizing a normalized text changes nothing, whatever the text,
\* the empty text and the texts of blank lines only included.
C11_Idempotent ==
    Len(norms) = 2 => norms[2] = norms[1]

\* A text of blank lines only has been normalized twice.
C11_Witness ==
    /\ Len(norms) = 2
    /\ text # <<>>
    /\ Strip(text) = <<>>
    /\ norms[1] # text

---------------------------------------------------------------------------
\* C12: the normalized text ends with exactly one newline and never holds
\* two blank lines in a row (three newlines in a row).
C12_OneNewlineNoBlankRun ==
    \A n \in 1..Len(norms) :
        LET y == norms[n] IN
        /\ y # <<>>
        /\ y[Len(y)] = "\n"
        /\ (Len(y) > 1 => y[Len(y) - 1] # "\n")
        /\ ~Contains(y, <<"\n", "\n", "\n">>)

\* A text with a run of blank lines and trailing newlines has been
\* normalized.
C12_Witness ==
    /\ Len(norms) >= 1
    /\ Contains(text, <<"a", "\n", "\n", "\n", "a">>)
    /\ text[Len(text)] = "\n"
    /\ Contains(norms[1], <<"a", "\n", "\n", "a">>)

---------------------------------------------------------------------------
\* The reference transform of C13: every line right-trimmed, a run of blank
\* lines collapsed to one, leading and trailing blank lines removed, one
\* trailing newline.
RECURSIVE SqueezeBlank(_)
SqueezeBlank(ls) ==
    IF Len(ls) < 2 THEN ls
    ELSE IF ls[1] = <<>> /\ ls[2] = <<>> THEN SqueezeBlank(Tail(ls))
    ELSE <<ls[1]>> \o SqueezeBlank(Tail(ls))

RECURSIVE DropLeadingBlank(_)
DropLeadingBlank(ls) ==
    IF ls # <<>> /\ ls[1] = <<>> THEN DropLeadingBlank(Tail(ls)) ELSE ls

RECURSIVE DropTrailingBlank(_)
DropTrailingBlank(ls) ==
    IF ls # <<>> /\ ls[Len(ls)] = <<>>
    THEN DropTrailingBlank(SubSeq(ls, 1, Len(ls) - 1))
    ELSE ls

ReferenceNormalize(code) ==
    LET split   == SplitLines(code)
        trimmed == [n \in 1..Len(split) |-> RStrip(split[n])]
    IN  JoinWith(<<"\n">>, DropTrailingBlank(DropLeadingBlank(SqueezeBlank(trimmed))))
            \o <<"\n">>

\* C13: the normalized text is the reference transform of the text, so the
\* indentation of every retained line, the first included, is preserved.
C13_EqualsReference ==
    Len(norms) >= 1 => norms[1] = ReferenceNormalize(text)

---------------------------------------------------------------------------
\* The language of a record, "none" when the record names none.
LanguageOf(rec) == IF "language" \in DOMAIN rec THEN rec.language ELSE "none"

\* C14: a record whose language is not python, or is missing, is read
\* without an error and its code_norm is its code, character for character:
\* trailing spaces, runs of blank lines and the final newline stay.
C14_ForeignCodeVerbatim ==
    /\ \A i \in 1..Len(items) :
          LanguageOf(items[i]) # "python" => items[i].code_norm = items[i].code
    /\ \A n \in 1..LinesRead :
          (Decodes(input[n]) /\ LanguageOf(input[n]) # "python") =>
              \E i \in 1..Len(items) :
                  items[i].line = n /\ items[i].code_norm = input[n].code
    /\ pc = "raised" => ~Decodes(input[idx + 1])

\* A javascript record and a record without language, with trailing spaces
\* and a run of blank lines, have been read and keep their code as code_norm.
C14_Witness ==
    /\ pc = "done"
    /\ \E i, j \in 1..Len(items) :
          /\ LanguageOf(items[i]) = "javascript"
          /\ items[i].code = T_ab_raw
          /\ items[i].code_norm = T_ab_raw
          /\ LanguageOf(items[j]) = "none"
          /\ items[j].code = T_gap
          /\ items[j].code_norm = T_gap

---------------------------------------------------------------------------
\* C15: exact_hash depends on code_norm alone: two records with the same
\* code_norm have the same exact_hash whatever their language, file_path,
\* loc or metadata, and the same text read twice gets the same hash twice.
C15_HashOfCodeNormOnly ==
    \A i, j \in 1..Len(items) :
        items[i].code_norm = items[j].code_norm =>
            items[i].exact_hash = items[j].exact_hash

\* Two records of different language, code, loc and file_path with the
\* same code_norm have been annotated.
C15_Witness ==
    \E i, j \in 1..Len(items) :
        /\ LanguageOf(items[i]) = "python"
        /\ LanguageOf(items[j]) = "javascript"
        /\ items[i].code # items[j].code
        /\ items[i].loc # items[j].loc
        /\ items[i].code_norm = items[j].code_norm
        /\ items[i].exact_hash = items[j].exact_hash

---------------------------------------------------------------------------
(* scripts/quality.py, split_code_for_completion.  A code is a sequence of *)
(* lines of a small Python vocabulary, each with its line break;           *)
(* ast.parse is a recursive descent over the indentation of the lines.     *)

CodeLines ==
    { "def f(a):", "def f(a,", "      b):", "x = 1",
      "    x = 1", "    if x:", "        x = 1", "    def g(b):" }

\* What a line opens: a one-line signature, the first or the last line of a
\* two-line signature, an if header, or a simple statement.
LineKind(l) ==
    CASE l \in {"def f(a):", "    def g(b):"} -> "def"
      [] l = "def f(a,"  -> "defopen"
      [] l = "      b):" -> "defclose"
      [] l = "    if x:" -> "if"
      [] OTHER -> "simple"

\* The indentation of a line, in steps of four spaces (the last line of a
\* signature stands inside the parentheses and has none).
LineIndent(l) ==
    CASE l \in {"    x = 1", "    if x:", "    def g(b):"} -> 1
      [] l = "        x = 1" -> 2
      [] OTHER -> 0

ParseError == [ok |-> FALSE]

\* ParseBlock: the statements at indentation b from line pos on, up to the
\* first line indented less; a line indented more, or the stray end of a
\* signature, is a syntax error.  ParseStmt: the statement that starts at
\* line pos; a header takes the block below it, which must be indented more.
RECURSIVE ParseBlock(_, _, _, _), ParseStmt(_, _, _)
ParseBlock(ls, pos, b, acc) ==
    IF pos > Len(ls) THEN [ok |-> TRUE, next |-> pos, nodes |-> acc]
    ELSE IF LineKind(ls[pos]) = "defclose" THEN ParseError
    ELSE IF LineIndent(ls[pos]) < b THEN [ok |-> TRUE, next |-> pos, nodes |-> acc]
    ELSE IF LineIndent(ls[pos]) > b THEN ParseError
    ELSE LET r == ParseStmt(ls, pos, b) IN
         IF ~r.ok THEN ParseError
         ELSE ParseBlock(ls, r.next, b, Append(acc, r.node))

ParseStmt(ls, pos, b) ==
    LET k  == LineKind(ls[pos])
        bs == IF k = "defopen" THEN pos + 2 ELSE pos + 1
    IN  IF k = "simple"
        THEN [ok |-> TRUE, next |-> pos + 1,
              node |-> [kind |-> "Assign", lineno |-> pos, end_lineno |-> pos, body |-> <<>>]]
        ELSE IF k = "defopen" /\ (pos + 1 > Len(ls) \/ LineKind(ls[pos + 1]) # "defclose")
        THEN ParseError
        ELSE IF bs > Len(ls) \/ LineKind(ls[bs]) = "defclose" \/ LineIndent(ls[bs]) <= b
        THEN ParseError
        ELSE LET r == ParseBlock(ls, bs, LineIndent(ls[bs]), <<>>) IN
             IF ~r.ok THEN ParseError
             ELSE [ok |-> TRUE, next |-> r.next,
                   node |-> [kind |-> IF k = "if" THEN "If" ELSE "FunctionDef",
                             lineno |-> pos, end_lineno |-> r.next - 1, body |-> r.nodes]]

\* safe_parse: the module's statements, or no tree.
safe_parse(ls) ==
    LET r == ParseBlock(ls, 1, 0, <<>>)
    IN  IF r.ok THEN [parsed |-> TRUE, body |-> r.nodes]
        ELSE [parsed |-> FALSE, body |-> <<>>]

\* _valid_syntax of task_transformers.py
_valid_syntax(ls) == safe_parse(ls).parsed

\* ast.walk: breadth first.
RECURSIVE AstWalk(_)
AstWalk(queue) ==
    IF queue = <<>> THEN <<>>
    ELSE <<Head(queue)>> \o AstWalk(Tail(queue) \o Head(queue).body)

\* add without the reparse of line 156.
Add_NoReparse(lines, found, prefix_idx, end_idx, ctype) ==
    Append(found, [prefix |-> SubSeq(lines, 1, prefix_idx),
                 completion |-> SubSeq(lines, prefix_idx + 1, end_idx),
                 ctype |-> ctype])

\* add, lines 153-157.
Add(lines, found, prefix_idx, end_idx, ctype) ==
    LET prefix     == SubSeq(lines, 1, prefix_idx)
        completion == SubSeq(lines, prefix_idx + 1, end_idx)
    IN  IF safe_parse(prefix \o completion).parsed
        THEN Append(found, [prefix |-> prefix, completion |-> completion, ctype |-> ctype])
        ELSE found

ControlFlow == {"If", "For", "While", "Try"}

\* Lines 167-172.
RECURSIVE SplitBody(_, _, _)
SplitBody(lines, stmts, found) ==
    IF stmts = <<>> THEN found
    ELSE LET stmt == Head(stmts) IN
         SplitBody(lines, Tail(stmts),
                   Add(lines, found, stmt.lineno - 1, stmt.end_lineno,
                       IF stmt.kind \in ControlFlow THEN "control_flow" ELSE "method_body"))

\* Lines 162-172 for one function.
SplitFunction(lines, node, found) ==
    LET def_line_end == node.lineno
        body_start   == IF node.body # <<>> THEN node.body[1].lineno ELSE def_line_end + 1
        with_args    == IF body_start - def_line_end >= 2
                        THEN Add(lines, found, def_line_end - 1, body_start - 1, "argument_list")
                        ELSE found
    IN  SplitBody(lines, node.body, with_args)

\* Lines 159-172.
RECURSIVE SplitNodes(_, _, _)
SplitNodes(lines, nodes, found) ==
    IF nodes = <<>> THEN found
    ELSE SplitNodes(lines, Tail(nodes),
                    IF Head(nodes).kind = "FunctionDef"
                    THEN SplitFunction(lines, Head(nodes), found)
                    ELSE found)

split_code_for_completion(lines) ==
    LET tree == safe_parse(lines) IN
    IF ~tree.parsed THEN <<>>
    ELSE LET found == SplitNodes(lines, AstWalk(tree.body), <<>>) IN
         IF found = <<>> /\ Len(lines) > 3
         THEN Add(lines, found, Len(lines) - 3, Len(lines), "method_body")
         ELSE found

InitSplit ==
    /\ src_code \in SeqsUpTo(CodeLines, MaxCodeLines)
    /\ split_pc = "call"
    /\ cands = <<>>
    /\ completion_file = <<>>
    /\ DedupIdle
    /\ ExtIdle
    /\ NormIdle
    /\ DocIdle
    /\ ValIdle

\* task_transformers.py line 109: cands = split_code_for_completion(code)
SplitCode ==
    /\ split_pc = "call"
    /\ cands' = split_code_for_completion(src_code)
    /\ split_pc' = "split"
    /\ UNCHANGED <<src_code, completion_file, dedup_vars, ext_vars, norm_vars, doc_vars, val_vars>>

\* task_transformers.py lines 110-125: the candidates that pass
\* _valid_syntax are written.
WriteCompletions ==
    /\ split_pc = "split"
    /\ completion_file' = SelectSeq(cands, LAMBDA c : _valid_syntax(c.prefix \o c.completion))
    /\ split_pc' = "written"
    /\ UNCHANGED <<src_code, cands, dedup_vars, ext_vars, norm_vars, doc_vars, val_vars>>

NextSplit ==
    \/ SplitCode
    \/ WriteCompletions

SpecSplit == InitSplit /\ [][NextSplit]_vars

---------------------------------------------------------------------------
\* C16: every candidate split_code_for_completion returns, and every one
\* written to completion.jsonl, has a prefix and a completion that parse
\* when put together; a code that does not parse yields no candidate.
C16_CandidatesReparse ==
    /\ split_pc \in {"split", "written"} =>
          /\ \A n \in 1..Len(cands) :
                safe_parse(cands[n].prefix \o cands[n].completion).parsed
          /\ ~safe_parse(src_code).parsed => cands = <<>>
    /\ \A n \in 1..Len(completion_file) :
          safe_parse(completion_file[n].prefix \o completion_file[n].completion).parsed

\* A function with a two-line signature has been split: the argument_list
\* candidate ends at the signature, does not parse and is left out, the
\* candidate of the body statement is returned.
C16_Witness ==
    /\ split_pc = "written"
    /\ src_code = <<"def f(a,", "      b):", "    x = 1">>
    /\ ~safe_parse(SubSeq(src_code, 1, 2)).parsed
    /\ Len(cands) = 1
    /\ cands[1].ctype = "method_body"
    /\ completion_file = cands

---------------------------------------------------------------------------
(* Python floats.  The scorer and the manifest compute with binary64       *)
(* numbers; their rounding decides a tier or a last digit on a boundary.   *)
(* A natural number of any size is a sequence of limbs, least first, in    *)
(* base LimbBase; a float is m * 2^e with m of 53 bits (m = <<>> for 0.0). *)
(* The numbers of the model are non-negative and far from the ends of the  *)
(* exponent range.                                                         *)

LimbBits == 2 * 7

LimbBase == 128 * 128

\* 2^k for k up to LimbBits.
Pow2(k) == <<1, 2, 4, 8, 16, 32, 64, 128, 256, 512, 1024, 2048, 4096, 8192, 16384>>[k + 1]

Zeros(k) == [i \in 1..k |-> 0]

RECURSIVE BigTrim(_)
BigTrim(x) ==
    IF x # <<>> /\ x[Len(x)] = 0 THEN BigTrim(SubSeq(x, 1, Len(x) - 1)) ELSE x

RECURSIVE BigOf(_)
BigOf(n) == IF n = 0 THEN <<>> ELSE <<n % LimbBase>> \o BigOf(n \div LimbBase)

RECURSIVE IntOf(_)
IntOf(x) == IF x = <<>> THEN 0 ELSE x[1] + LimbBase * IntOf(Tail(x))

LimbAt(x, i) == IF i <= Len(x) THEN x[i] ELSE 0

RECURSIVE AddFrom(_, _, _, _)
AddFrom(x, y, i, carry) ==
    IF i > Len(x) /\ i > Len(y)
    THEN IF carry = 0 THEN <<>> ELSE <<carry>>
    ELSE LET s == LimbAt(x, i) + LimbAt(y, i) + carry
         IN  <<s % LimbBase>> \o AddFrom(x, y, i + 1, s \div LimbBase)

BigAdd(x, y) == AddFrom(x, y, 1, 0)

RECURSIVE MulLimbFrom(_, _, _, _)
MulLimbFrom(x, d, i, carry) ==
    IF i > Len(x)
    THEN IF carry = 0 THEN <<>> ELSE <<carry>>
    ELSE LET p == x[i] * d + carry
         IN  <<p % LimbBase>> \o MulLimbFrom(x, d, i + 1, p \div LimbBase)

RECURSIVE MulFrom(_, _, _)
MulFrom(x, y, j) ==
    IF j > Len(y) THEN <<>>
    ELSE BigAdd(Zeros(j - 1) \o MulLimbFrom(x, y[j], 1, 0), MulFrom(x, y, j + 1))

BigMul(x, y) == BigTrim(MulFrom(x, y, 1))

RECURSIVE BitsOf(_)
BitsOf(n) == IF n = 0 THEN 0 ELSE 1 + BitsOf(n \div 2)

\* The number of binary digits of x.
BigBits(x) == IF x = <<>> THEN 0 ELSE LimbBits * (Len(x) - 1) + BitsOf(x[Len(x)])

\* Binary digit i of x, digit 0 the lowest.
BigBit(x, i) == (LimbAt(x, i \div LimbBits + 1) \div Pow2(i % LimbBits)) % 2

\* x * 2^k and the whole part of x / 2^k.
BigShl(x, k) ==
    BigTrim(Zeros(k \div LimbBits) \o MulLimbFrom(x, Pow2(k % LimbBits), 1, 0))

BigShr(x, k) ==
    LET r  == k % LimbBits
        hi == SubSeq(x, k \div LimbBits + 1, Len(x))
    IN  BigTrim([i \in 1..Len(hi) |->
                    hi[i] \div Pow2(r) + (LimbAt(hi, i + 1) % Pow2(r)) * Pow2(LimbBits - r)])

\* The k lowest binary digits of x are all 0.
BigLowZero(x, k) ==
    /\ \A i \in 1..(k \div LimbBits) : LimbAt(x, i) = 0
    /\ LimbAt(x, k \div LimbBits + 1) % Pow2(k % LimbBits) = 0

RECURSIVE LessFrom(_, _, _)
LessFrom(x, y, i) ==
    IF i = 0 THEN FALSE
    ELSE IF x[i] # y[i] THEN x[i] < y[i]
    ELSE LessFrom(x, y, i - 1)

BigLess(x, y) == IF Len(x) # Len(y) THEN Len(x) < Len(y) ELSE LessFrom(x, y, Len(x))

\* x divided by the small number d, limb by limb from the highest.
RECURSIVE DivFrom(_, _, _, _)
DivFrom(x, d, i, r) ==
    IF i = 0 THEN [quot |-> <<>>, rem |-> r]
    ELSE LET cur  == r * LimbBase + x[i]
             rest == DivFrom(x, d, i - 1, cur % d)
         IN  [quot |-> Append(rest.quot, cur \div d), rem |-> rest.rem]

BigDivInt(x, d) ==
    LET r == DivFrom(x, d, Len(x), 0) IN [quot |-> BigTrim(r.quot), rem |-> r.rem]

FZero == [m |-> <<>>, e |-> 0]

\* The float nearest to mant * 2^ex, a half going to the even mantissa
\* (IEEE 754 round-half-even); sticky tells that digits below mant were cut
\* off and were not all 0.
F64(mant, ex, sticky) ==
    IF mant = <<>> THEN FZero
    ELSE LET n == BigBits(mant) IN
         IF n <= 53 THEN [m |-> BigShl(mant, 53 - n), e |-> ex - (53 - n)]
         ELSE LET s    == n - 53
                  q    == BigShr(mant, s)
                  half == BigBit(mant, s - 1) = 1
                  rest == sticky \/ ~BigLowZero(mant, s - 1)
                  q1   == IF half /\ (rest \/ q[1] % 2 = 1) THEN BigAdd(q, <<1>>) ELSE q
              IN  IF BigBits(q1) > 53
                  THEN [m |-> BigShr(q1, 1), e |-> ex + s + 1]
                  ELSE [m |-> q1, e |-> ex + s]

\* float(n) and the float quotient p / q of two whole numbers (int / int
\* and float / float round the exact quotient alike); the literal 0.45 is
\* the float nearest to 45/100, which is FDiv(45, 100).
FOfInt(n) == F64(BigOf(n), 0, FALSE)

FOne == FOfInt(1)

FDiv(p, q) ==
    IF p = 0 THEN FZero
    ELSE IF p = q THEN FOne
    ELSE LET r == BigDivInt(BigShl(BigOf(p), 80), q) IN F64(r.quot, 0 - 80, r.rem # 0)

FMul(x, y) ==
    IF x = FOne THEN y
    ELSE IF y = FOne THEN x
    ELSE F64(BigMul(x.m, y.m), x.e + y.e, FALSE)

FAdd(x, y) ==
    IF x.m = <<>> THEN y
    ELSE IF y.m = <<>> THEN x
    ELSE LET ex == IF x.e < y.e THEN x.e ELSE y.e
         IN  F64(BigAdd(BigShl(x.m, x.e - ex), BigShl(y.m, y.e - ex)), ex, FALSE)

FLess(x, y) ==
    IF y.m = <<>> THEN FALSE
    ELSE IF x.m = <<>> THEN TRUE
    ELSE IF x.e # y.e THEN x.e < y.e
    ELSE BigLess(x.m, y.m)

FMin(x, y) == IF FLess(y, x) THEN y ELSE x

FMax(x, y) == IF FLess(x, y) THEN y ELSE x

\* round(x, ndigits) as the whole number of units of 10^-ndigits, scale
\* being 10^ndigits: the exact value of the float x is rounded, a half
\* going to the even digit.
PyRound(x, scale) ==
    IF x.m = <<>> THEN 0
    ELSE LET n == BigMul(x.m, BigOf(scale)) IN
         IF x.e >= 0 THEN IntOf(BigShl(n, x.e))
         ELSE LET s    == 0 - x.e
                  q    == IntOf(BigShr(n, s))
                  half == BigBit(n, s - 1) = 1
                  rest == ~BigLowZero(n, s - 1)
              IN  IF half /\ (rest \/ q % 2 = 1) THEN q + 1 ELSE q

---------------------------------------------------------------------------
(* scripts/quality.py, DocumentationQualityScorer.score.  The parts and    *)
(* the weighted sum are floats as above; the returned score, rounded to    *)
(* four decimals, is held in ten-thousandths.                              *)

W_return  == <<"r", "e", "t", "u", "r", "n">>
W_example == <<"e", "x", "a", "m", "p", "l", "e">>
W_colons  == <<":", ":">>
W_x       == <<"x">>
W_y       == <<"y">>
W_it      == <<"i", "t">>

\* str.lower() on the letters of the model.
LowerChar(c) == CASE c = "X" -> "x" [] c = "Y" -> "y" [] OTHER -> c

Lower(s) == [i \in 1..Len(s) |-> LowerChar(s[i])]

\* covered counting the parameters the docstring does not name.
Covered_Missing(ps, lower) ==
    Cardinality({ i \in 1..Len(ps) : ~(ps[i] # <<>> /\ Contains(lower, Lower(ps[i]))) })

\* Lines 90-93: the parameters whose lower-cased name occurs in the
\* lower-cased docstring.
Covered(ps, lower) ==
    Cardinality({ i \in 1..Len(ps) : ps[i] # <<>> /\ Contains(lower, Lower(ps[i])) })

\* Line 96, as 0 or 1.
ReturnCov(lower) == IF Contains(lower, W_return) THEN 1 ELSE 0

\* Line 98, as 0 or 1 (the docstrings of the model hold no backquote, so
\* the test for a code fence is always false and is left out).
ExampleBonus(doc, lower) ==
    IF Contains(lower, W_example) \/ Contains(doc, W_colons) THEN 1 ELSE 0

\* _token_count
TokenCount(doc) == Len(Split(doc))

Min(a, b) == IF a <= b THEN a ELSE b

\* The literals of lines 103-108.
WeightParam == FDiv(45, 100)

WeightReturn == FDiv(25, 100)

WeightLength == FDiv(20, 100)

WeightExample == FDiv(10, 100)

HighFrom == FDiv(7, 10)

MediumFrom == FDiv(4, 10)

\* Line 94: covered / max(1, len(params)), 1.0 without parameters.
ParamCov(ps, lower) ==
    IF ps # <<>>
    THEN FDiv(Covered(ps, lower), IF Len(ps) > 1 THEN Len(ps) ELSE 1)
    ELSE FOne

\* Line 101 (for a positive expected_len).
DocLengthScore(doc, el) == FMax(FZero, FMin(FOne, FDiv(TokenCount(doc), el)))

\* Line 103: the weighted sum, the products added from left to right.
Aggregate(ps, doc, el) ==
    LET lower == Lower(doc)
    IN  FAdd(FAdd(FAdd(FMul(WeightParam, ParamCov(ps, lower)),
                       FMul(WeightReturn, FOfInt(ReturnCov(lower)))),
                  FMul(WeightLength, DocLengthScore(doc, el))),
             FMul(WeightExample, FOfInt(ExampleBonus(doc, lower))))

\* Lines 104-110.
Tier(total) ==
    IF ~FLess(total, HighFrom) THEN "high_quality"
    ELSE IF ~FLess(total, MediumFrom) THEN "medium_quality"
    ELSE "low_quality"

\* round(float(score), 4), in ten-thousandths.
Round4(total) == PyRound(total, 10000)

\* score, lines 86-118 (for a positive expected_len).
score(ps, doc, el) ==
    LET total == Aggregate(ps, doc, el)
    IN  [score |-> Round4(total), tier |-> Tier(total)]

ParamNames == { <<"x">>, <<"Y">>, <<"i", "d">> }

DocWords == { W_return, W_example, W_colons, W_x, W_y, W_it }

Docstrings == { JoinWith(<<" ">>, ws) : ws \in SeqsUpTo(DocWords, MaxDocWords) }

ExpectedLens == {2, 8, 60}

\* Parameter lists on which the rounding of the floats shows: with nine
\* names, two of them covered, "return x" and expected_len 8 the exact sum
\* is 0.4 and the float sum is below it; with eight names, one covered, "x"
\* and expected_len 2 the sum is 0.15625, halfway between two scores.
BoundaryParams ==
    { [i \in 1..9 |-> IF i <= 2 THEN <<"x">> ELSE <<"i", "d">>],
      [i \in 1..8 |-> IF i <= 1 THEN <<"x">> ELSE <<"i", "d">>] }

\* words with the word w put in after the first k of them.
InsertAt(words, k, w) ==
    SubSeq(words, 1, k) \o <<w>> \o SubSeq(words, k + 1, Len(words))

InitDoc ==
    /\ doc_params \in SeqsUpTo(ParamNames, MaxParams) \cup BoundaryParams
    /\ docstring \in Docstrings
    /\ expected_len \in ExpectedLens
    /\ doc_scores = <<>>
    /\ added = <<>>
    /\ DedupIdle
    /\ ExtIdle
    /\ NormIdle
    /\ SplitIdle
    /\ ValIdle

\* A call of score on the docstring as it stands.
ScoreDoc ==
    /\ \/ doc_scores = <<>>
       \/ Len(doc_scores) = 1 /\ added # <<>>
    /\ doc_scores' = Append(doc_scores, score(doc_params, docstring, expected_len))
    /\ UNCHANGED <<doc_params, docstring, expected_len, added, dedup_vars, ext_vars, norm_vars, split_vars, val_vars>>

\* The name of a parameter the docstring does not cover is added to the
\* docstring as a word of its own, at any place.
AddParamToken ==
    /\ Len(doc_scores) = 1
    /\ added = <<>>
    /\ \E i \in 1..Len(doc_params) :
          /\ ~Contains(Lower(docstring), Lower(doc_params[i]))
          /\ \E k \in 0..Len(Split(docstring)) :
                docstring' = JoinWith(<<" ">>, InsertAt(Split(docstring), k, doc_params[i]))
          /\ added' = doc_params[i]
    /\ UNCHANGED <<doc_params, expected_len, doc_scores, dedup_vars, ext_vars, norm_vars, split_vars, val_vars>>

NextDoc ==
    \/ ScoreDoc
    \/ AddParamToken

SpecDoc == InitDoc /\ [][NextDoc]_vars

---------------------------------------------------------------------------
\* C17: adding to the docstring a word equal to the name of a parameter it
\* did not cover never lowers the score returned.
C17_MonotoneInCoverage ==
    Len(doc_scores) = 2 => doc_scores[2].score >= doc_scores[1].score

\* A docstring of full length that names one of two parameters was scored,
\* the other name was added, and the second score is the higher one.
C17_Witness ==
    /\ Len(doc_scores) = 2
    /\ Len(doc_params) = 2
    /\ added # <<>>
    /\ expected_len = 2
    /\ TokenCount(docstring) = 3
    /\ doc_scores[2].score > doc_scores[1].score
    /\ doc_scores[1].tier # doc_scores[2].tier

---------------------------------------------------------------------------
(* scripts/validate_and_version.py.  The JSON schemas are data outside the *)
(* code: whether a record satisfies its schema is a field of the record.   *)
(* Numbers with a fraction are held as integers: complexity in tenths,     *)
(* synthetic_pct in hundredths, duplication_rate_hint as a fraction.       *)

\* None
Null == [null |-> TRUE]

Tasks == <<"completion", "documentation", "refactor", "debugging">>

\* A record that satisfies its schema.
ValidRec ==
    [valid |-> TRUE, license |-> "MIT", language |-> "python",
     metadata |-> [documentation |-> [tier |-> "high_quality"],
                   quality |-> [cyclomatic_complexity |-> 20]]]

\* A record that violates its schema.
InvalidRec == [valid |-> FALSE]

\* A completion record whose metrics say valid_syntax is false.
FlaggedRec == [metrics |-> [valid_syntax |-> FALSE]] @@ ValidRec

\* A documentation record with a synthetic docstring and no license.
SyntheticRec ==
    [valid |-> TRUE, language |-> "python",
     metadata |-> [documentation |-> [synthetic |-> TRUE]]]

\* A refactor record whose pre or post does not compile.
UncompilableRec == [compiles |-> FALSE] @@ ValidRec

\* The lines a task file may hold.
FinalLines(task) ==
    {ValidRec, InvalidRec, Malformed} \cup
    (CASE task = "completion"    -> {FlaggedRec}
       [] task = "documentation" -> {SyntheticRec}
       [] task = "refactor"      -> {UncompilableRec}
       [] OTHER -> {})

MissingFile == [exists |-> FALSE]

FinalFiles(task) ==
    {MissingFile} \cup
    { [exists |-> TRUE, lines |-> ls] : ls \in SeqsUpTo(FinalLines(task), MaxFileLines) }

FinalDirs ==
    { [completion |-> a, documentation |-> b, refactor |-> c, debugging |-> d] :
        a \in FinalFiles("completion"), b \in FinalFiles("documentation"),
        c \in FinalFiles("refactor"), d \in FinalFiles("debugging") }

\* stats_from_norm: not passed, empty, the summary of a run, and summaries
\* with a zero or missing total.
StatsChoices ==
    { Null, NoDict, [total |-> 10, near_unique |-> 7],
      [total |-> 0, near_unique |-> 0], [near_unique |-> 2] }

\* d[k] = v
Put(d, k, v) == [x \in DOMAIN d \cup {k} |-> IF x = k THEN v ELSE d[x]]

\* Lines 33-45.
EmptyManifest ==
    [counts |-> NoDict, licenses |-> NoDict, languages |-> NoDict,
     duplication_rate_hint |-> Null, provenance_complete |-> TRUE,
     quality_report |->
        [by_task |-> NoDict,
         doc_tiers |-> [high_quality |-> 0, medium_quality |-> 0,
                        low_quality |-> 0, synthetic |-> 0],
         complexity |-> [sum |-> 0, count |-> 0],
         synthetic_pct |-> 0]]

\* Lines 60-71: the record and its provenance against their schemas.
SchemaValid(task, rec) == rec.valid

\* Lines 73-77.
SyntaxFlagFalse(rec) ==
    "metrics" \in DOMAIN rec /\ Get(rec.metrics, "valid_syntax", TRUE) = FALSE

\* Lines 80-86.
BothCompile(rec) == Get(rec, "compiles", TRUE)

\* Lines 90-95.
TallyOrigin(rec, m) ==
    LET withLic == IF "license" \in DOMAIN rec
                   THEN [m EXCEPT !.licenses = Put(@, rec.license, Get(@, rec.license, 0) + 1)]
                   ELSE m
    IN  IF "language" \in DOMAIN rec
        THEN [withLic EXCEPT !.languages = Put(@, rec.language, Get(@, rec.language, 0) + 1)]
        ELSE withLic

\* Lines 97-105.
TallyTier(task, rec, m) ==
    LET dq == MetaPart(rec, "documentation") IN
    IF task # "documentation" THEN m
    ELSE IF Get(dq, "synthetic", FALSE)
    THEN [m EXCEPT !.quality_report.doc_tiers.synthetic = @ + 1]
    ELSE LET tier == Get(dq, "tier", "low_quality") IN
         IF tier \in DOMAIN m.quality_report.doc_tiers
         THEN [m EXCEPT !.quality_report.doc_tiers[tier] = @ + 1]
         ELSE m

\* Lines 106-110.
TallyComplexity(rec, m) ==
    LET q == MetaPart(rec, "quality") IN
    IF "cyclomatic_complexity" \in DOMAIN q
    THEN [m EXCEPT !.quality_report.complexity.sum = @ + q.cyclomatic_complexity,
                   !.quality_report.complexity.count = @ + 1]
    ELSE m

ValidationRaised == [raised |-> TRUE]

\* Lines 53-111 for one file: the manifest with the task's count, unless a
\* record raises.
RECURSIVE ReadTask(_, _, _, _)
ReadTask(task, lines, count, m) ==
    IF lines = <<>>
    THEN [raised |-> FALSE, manifest |-> [m EXCEPT !.counts = Put(@, task, count)]]
    ELSE LET rec == Head(lines) IN
         IF ~Decodes(rec) THEN ReadTask(task, Tail(lines), count, m)
         ELSE IF ~SchemaValid(task, rec) THEN ValidationRaised
         ELSE IF task = "completion" /\ SyntaxFlagFalse(rec) THEN ValidationRaised
         ELSE IF task = "refactor" /\ ~BothCompile(rec)
         THEN ReadTask(task, Tail(lines), count, m)
         ELSE ReadTask(task, Tail(lines), count + 1,
                       TallyComplexity(rec, TallyTier(task, rec, TallyOrigin(rec, m))))

\* Lines 47-111 for one task.
ReadTaskFile(task, file, m) ==
    IF ~file.exists
    THEN [raised |-> FALSE, manifest |-> [m EXCEPT !.counts = Put(@, task, 0)]]
    ELSE ReadTask(task, file.lines, 0, m)

\* The loop of line 47 over the tasks.
RECURSIVE ReadFiles(_, _, _)
ReadFiles(tasks, dir, m) ==
    IF tasks = <<>> THEN [raised |-> FALSE, manifest |-> m]
    ELSE LET r == ReadTaskFile(Head(tasks), dir[Head(tasks)], m) IN
         IF r.raised THEN r ELSE ReadFiles(Tail(tasks), dir, r.manifest)

Max(a, b) == IF a >= b THEN a ELSE b

IsFilledDict(stats) == "null" \notin DOMAIN stats /\ DOMAIN stats # {}

\* The hint as the share of the records kept (the `1.0 -` of line 116
\* missing).
DuplicationRateHint_KeptShare(stats) ==
    IF IsFilledDict(stats)
    THEN LET t    == Max(Get(stats, "total", 0), 1)
             nkept == Get(stats, "near_unique", 0)
         IN  [num |-> nkept, den |-> t]
    ELSE Null

\* Lines 113-116: 1.0 - kept / t as the fraction num / den.
DuplicationRateHint(stats) ==
    IF IsFilledDict(stats)
    THEN LET t    == Max(Get(stats, "total", 0), 1)
             nkept == Get(stats, "near_unique", 0)
         IN  [num |-> t - nkept, den |-> t]
    ELSE Null

\* Line 121: round(100.0 * syn_docs / docs, 2), in hundredths of a percent
\* point.
SyntheticPct(m) ==
    LET syn_docs == m.quality_report.doc_tiers.synthetic
        docs     == Max(1, Get(m.counts, "documentation", 1))
    IN  PyRound(FDiv(100 * syn_docs, docs), 100)

\* validate_and_version: the manifest written, unless a record raised.
validate_and_version(dir, stats) ==
    LET r == ReadFiles(Tasks, dir, EmptyManifest) IN
    IF r.raised THEN r
    ELSE [raised |-> FALSE,
          manifest |-> [r.manifest EXCEPT
                           !.duplication_rate_hint = DuplicationRateHint(stats),
                           !.quality_report.synthetic_pct = SyntheticPct(r.manifest)]]

InitValidate ==
    /\ final_dir \in FinalDirs
    /\ stats_from_norm \in StatsChoices
    /\ val_pc = "call"
    /\ manifest_file = NoDict
    /\ DedupIdle
    /\ ExtIdle
    /\ NormIdle
    /\ SplitIdle
    /\ DocIdle

\* The call returns: manifest.json is written (lines 123-125).
Validate ==
    /\ val_pc = "call"
    /\ LET r == validate_and_version(final_dir, stats_from_norm)
       IN  /\ ~r.raised
           /\ manifest_file' = r.manifest
    /\ val_pc' = "returned"
    /\ UNCHANGED <<final_dir, stats_from_norm, dedup_vars, ext_vars, norm_vars, split_vars, doc_vars>>

\* A record fails its schema (line 68 or 71) or carries valid_syntax false
\* (line 77): the exception leaves the call and nothing is written.
ValidateRaises ==
    /\ val_pc = "call"
    /\ validate_and_version(final_dir, stats_from_norm).raised
    /\ val_pc' = "raised"
    /\ UNCHANGED <<final_dir, stats_from_norm, manifest_file, dedup_vars, ext_vars, norm_vars, split_vars, doc_vars>>

NextValidate ==
    \/ Validate
    \/ ValidateRaises

SpecValidate == InitValidate /\ [][NextValidate]_vars

---------------------------------------------------------------------------
\* The manifest the claim C18 describes: written, with a count for each of
\* the four tasks and no other, 0 for a task whose file is missing, and,
\* when a non-empty stats_from_norm was passed, a duplication_rate_hint that
\* is 1 - near_unique / max(total, 1).
ManifestAsClaimed ==
    /\ manifest_file # NoDict
    /\ DOMAIN manifest_file.counts = {"completion", "documentation", "refactor", "debugging"}
    /\ \A t \in DOMAIN final_dir : ~final_dir[t].exists => manifest_file.counts[t] = 0
    /\ stats_from_norm \notin {Null, NoDict} =>
          LET total       == IF "total" \in DOMAIN stats_from_norm THEN stats_from_norm.total ELSE 0
              near_unique == IF "near_unique" \in DOMAIN stats_from_norm
                             THEN stats_from_norm.near_unique ELSE 0
              d           == IF total > 1 THEN total ELSE 1
              hint        == manifest_file.duplication_rate_hint
          IN  /\ hint # Null
              /\ hint.den > 0
              /\ hint.num * d = (d - near_unique) * hint.den

\* A line that makes validate_and_version raise.
Offending(task, line) ==
    /\ Decodes(line)
    /\ \/ ~line.valid
       \/ task = "completion" /\ line = FlaggedRec

\* C18 as stated: validate_and_version always writes the manifest of the
\* claim, whatever the task files hold.
C18_AlwaysManifest ==
    val_pc \in {"returned", "raised"} => ManifestAsClaimed

\* C18 amended: when no record fails its schema and no completion record
\* carries valid_syntax false, validate_and_version returns and has written
\* the manifest of the claim; otherwise it raises and writes no manifest.
C18_ManifestWhenValid ==
    LET clean == \A t \in DOMAIN final_dir :
                    final_dir[t].exists =>
                        \A n \in 1..Len(final_dir[t].lines) : ~Offending(t, final_dir[t].lines[n])
    IN  /\ val_pc = "returned" => clean /\ ManifestAsClaimed
        /\ val_pc = "raised" => ~clean /\ manifest_file = NoDict
        /\ val_pc = "call" => manifest_file = NoDict

\* A call with a missing file, a file holding only a line that is not JSON,
\* a counted record and the summary of a run has returned: counts 0, 0 and
\* 1, and a hint of 3/10.
C18_Witness ==
    /\ val_pc = "returned"
    /\ ~final_dir.completion.exists
    /\ final_dir.documentation.exists /\ final_dir.documentation.lines = <<Malformed>>
    /\ final_dir.refactor.exists /\ final_dir.refactor.lines = <<ValidRec>>
    /\ stats_from_norm = [total |-> 10, near_unique |-> 7]
    /\ manifest_file.counts.completion = 0
    /\ manifest_file.counts.documentation = 0
    /\ manifest_file.counts.refactor = 1
    /\ manifest_file.duplication_rate_hint = [num |-> 3, den |-> 10]

---------------------------------------------------------------------------
\* The streaming protocol of C19: the records are taken in input order; a
\* record is dropped iff a neighbour among the records inserted before it
\* is marked kept, and it is inserted into the index either way.  The
\* result is the set of kept positions.
RECURSIVE StreamFrom(_, _, _, _)
StreamFrom(index, sigs, i, keptpos) ==
    IF i > Len(sigs) THEN keptpos
    ELSE LET previous == LshQuery(index, sigs[i])
             keep     == previous \cap keptpos = {}
         IN  StreamFrom(LshInsert(index, i, sigs[i]), sigs, i + 1,
                        IF keep THEN keptpos \cup {i} ELSE keptpos)

StreamKept(sigs, threshold) == StreamFrom(NewLSH(threshold, perms), sigs, 1, {})

\* The positions in uniq of the records kept by the near dedup.
KeptPos == { i \in 1..Len(uniq) : uniq[i].line \in LinesOf(kept) }

\* C19: the near dedup of the code (every record inserted first, then each
\* record not marked dropped kept and its query results marked dropped)
\* keeps exactly the records the streaming protocol keeps.
C19_SameAsStreaming ==
    pc = "done" => KeptPos = StreamKept(mh_list, lsh_threshold)

\* A record was kept and two later records, both its neighbours, dropped.
C19_Witness ==
    /\ pc = "done"
    /\ Len(uniq) = 3
    /\ dropped = {2, 3}
    /\ KeptPos = {1}
    /\ StreamKept(mh_list, lsh_threshold) = {1}
    /\ mh_list[2] # mh_list[3]

---------------------------------------------------------------------------
\* Positions i and j of uniq share a bucket of the index.
Neighbours(i, j) == j \in LshQuery(lsh, mh_list[i])

\* C20: the first exact-unique record is always kept; a record is marked
\* dropped only as the neighbour of a kept record; and at the end a record
\* is kept when none of its neighbours is kept, so a record whose
\* neighbours were all dropped stays (dropping does not pass on).
C20_GreedyNotTransitive ==
    /\ (((pc = "filter" /\ idx >= 1) \/ pc = "done") /\ uniq # <<>>) =>
          (kept # <<>> /\ kept[1] = uniq[1])
    /\ pc \in {"filter", "done"} =>
          /\ \A j \in dropped : \E i \in KeptPos : i # j /\ Neighbours(i, j)
          /\ \A j \in 1..idx : j \notin KeptPos => j \in dropped
    /\ pc = "done" =>
          \A i \in 1..Len(uniq) :
              (\A j \in 1..Len(uniq) : (j # i /\ Neighbours(i, j)) => j \notin KeptPos)
                  => i \in KeptPos

\* Three records in a chain: the second is a neighbour of the first and of
\* the third, the third is no neighbour of the first.  The first is kept,
\* the second dropped, and the third, whose only neighbour was dropped, kept.
C20_Witness ==
    /\ pc = "done"
    /\ Len(uniq) = 3
    /\ Neighbours(1, 2) /\ Neighbours(2, 3) /\ ~Neighbours(1, 3)
    /\ dropped = {2}
    /\ KeptPos = {1, 3}

---------------------------------------------------------------------------
(* _shingles on its own, lines 93-98 of normalize_and_dedup: the tokens of *)
(* one record are shingled and the shingles are fed to a fresh MinHash.    *)

\* Tokens as str.split yields them: no whitespace inside.  shingle_size is
\* any integer (line 86): sizes below 1 are drawn too.
ShingleTokens == { <<"a">>, <<"b">>, <<"a", "b">> }

InitShingles ==
    /\ tok_list \in SeqsUpTo(ShingleTokens, MaxTokens)
    /\ sh_k \in (0 - MaxShingle)..MaxShingle
    /\ sh_out = <<>>
    /\ DedupIdle
    /\ NormIdle
    /\ SplitIdle
    /\ DocIdle
    /\ ValIdle
    /\ CycIdle
    /\ NestIdle
    /\ EquivIdle
    /\ RunIdle
    /\ SecurityIdle
    /\ FlowIdle

\* shingles = _shingles(tokens, shingle_k); m = MinHash(num_perm=perms);
\* m.update(s) for every shingle.
ShingleRecord ==
    /\ sh_out = <<>>
    /\ sh_out' = <<[shingles |-> _shingles(tok_list, sh_k),
                    m |-> MinHash(_shingles(tok_list, sh_k), Len(PermA))]>>
    /\ UNCHANGED <<tok_list, sh_k, frame_shingle>>

NextShingles == ShingleRecord

SpecShingles == InitShingles /\ [][NextShingles]_vars

\* The number of characters of the tokens i..j of a list.
RECURSIVE TokenChars(_, _, _)
TokenChars(toks, i, j) ==
    IF i > j THEN 0 ELSE Len(toks[i]) + TokenChars(toks, i + 1, j)

\* The signature of a MinHash nothing was fed to.
EmptySignature == [p \in 1..Len(PermA) |-> MaxHash]

\* C21: for n tokens and shingle size k >= 1, _shingles returns
\* max(0, n - k + 1) shingles, the i-th being the tokens i..i+k-1 with one
\* space between neighbours; with fewer than k tokens there is no shingle
\* and the record gets the empty signature.
C21_ShingleWindows ==
    (sh_out # <<>> /\ sh_k >= 1) =>
        LET n  == Len(tok_list)
            sh == sh_out[1].shingles
        IN  /\ Len(sh) = Max(0, n - sh_k + 1)
            /\ \A i \in 1..Len(sh) :
                /\ Split(sh[i]) = SubSeq(tok_list, i, i + sh_k - 1)
                /\ Len(sh[i]) = TokenChars(tok_list, i, i + sh_k - 1) + (sh_k - 1)
            /\ n < sh_k => sh = <<>> /\ sh_out[1].m = EmptySignature

\* A record of two tokens has been shingled with size 3: no shingle, the
\* empty signature.
C21_Witness ==
    /\ sh_out # <<>>
    /\ Len(tok_list) = 2
    /\ sh_k = 3
    /\ sh_out[1].shingles = <<>>
    /\ sh_out[1].m = EmptySignature

---------------------------------------------------------------------------
(* scripts/quality.py, cyclomatic_complexity.  radon is outside the code:  *)
(* what cc_visit does with a code is an input, either an exception or the  *)
(* list of the complexities of the blocks it found (radon counts from 1).  *)
(* The result is held as a fraction.                                       *)

\* str.startswith at position i (1-based).
StartsAt(s, sub, i) ==
    i + Len(sub) - 1 <= Len(s) /\ SubSeq(s, i, i + Len(sub) - 1) = sub

\* s.count(sub): occurrences found from the left, none overlapping another.
RECURSIVE CountFrom(_, _, _)
CountFrom(s, sub, i) ==
    IF i + Len(sub) - 1 > Len(s) THEN 0
    ELSE IF StartsAt(s, sub, i) THEN 1 + CountFrom(s, sub, i + Len(sub))
    ELSE CountFrom(s, sub, i + 1)

Count(s, sub) == CountFrom(s, sub, 1)

\* The branch keywords of the fallback, each between two spaces.
BranchKeywords ==
    << <<" ", "i", "f", " ">>, <<" ", "f", "o", "r", " ">>,
       <<" ", "w", "h", "i", "l", "e", " ">>, <<" ", "a", "n", "d", " ">>,
       <<" ", "o", "r", " ">>, <<" ", "e", "x", "c", "e", "p", "t", " ">>,
       <<" ", "e", "l", "i", "f", " ">> >>

RECURSIVE SumSeq(_)
SumSeq(s) == IF s = <<>> THEN 0 ELSE Head(s) + SumSeq(Tail(s))

\* sum(code.count(k) for k in [...])
BranchTokens(code) ==
    SumSeq([n \in 1..Len(BranchKeywords) |-> Count(code, BranchKeywords[n])])

ToolRaises == [raises |-> TRUE]
ToolBlocks(cs) == [raises |-> FALSE, complexity |-> cs]

One == [num |-> 1, den |-> 1]

\* The fallback without its base of one.
cyclomatic_complexity_NoBase(code, tool) ==
    IF tool = Null THEN [num |-> BranchTokens(code), den |-> 1]
    ELSE IF tool.raises THEN One
    ELSE IF tool.complexity = <<>> THEN One
    ELSE [num |-> SumSeq(tool.complexity), den |-> Len(tool.complexity)]

\* cyclomatic_complexity(code), with tool standing for cc_visit.
cyclomatic_complexity(code, tool) ==
    IF tool = Null THEN [num |-> 1 + BranchTokens(code), den |-> 1]
    ELSE IF tool.raises THEN One
    ELSE IF tool.complexity = <<>> THEN One
    ELSE [num |-> SumSeq(tool.complexity), den |-> Len(tool.complexity)]

\* Codes as runs of words.
CodePieces == { <<" ">>, <<"i", "f">>, <<"o", "r">>, <<"x">> }

RECURSIVE Flatten(_)
Flatten(ps) == IF ps = <<>> THEN <<>> ELSE Head(ps) \o Flatten(Tail(ps))

MeasuredCodes == { Flatten(ps) : ps \in SeqsUpTo(CodePieces, MaxPieces) }

ToolOutcomes ==
    {ToolRaises} \cup
    { ToolBlocks(cs) : cs \in SeqsUpTo(1..MaxBlockComplexity, MaxBlocks) }

InitCyclomatic ==
    /\ cc_code \in MeasuredCodes
    /\ cc_visit \in {Null} \cup ToolOutcomes
    /\ cc_out = <<>>
    /\ DedupIdle
    /\ NormIdle
    /\ SplitIdle
    /\ DocIdle
    /\ ValIdle
    /\ ShingleIdle
    /\ NestIdle
    /\ EquivIdle
    /\ RunIdle
    /\ SecurityIdle
    /\ FlowIdle

\* Lines 61-67: radon is missing, the keywords are counted.
MeasureFallback ==
    /\ cc_out = <<>>
    /\ cc_visit = Null
    /\ cc_out' = <<cyclomatic_complexity(cc_code, cc_visit)>>
    /\ UNCHANGED <<cc_code, cc_visit, frame_cyc>>

\* Lines 68-75: radon measures the code.
MeasurePrecise ==
    /\ cc_out = <<>>
    /\ cc_visit # Null
    /\ cc_out' = <<cyclomatic_complexity(cc_code, cc_visit)>>
    /\ UNCHANGED <<cc_code, cc_visit, frame_cyc>>

NextCyclomatic ==
    \/ MeasureFallback
    \/ MeasurePrecise

SpecCyclomatic == InitCyclomatic /\ [][NextCyclomatic]_vars

\* C22: on both paths cyclomatic_complexity returns a value that is at
\* least 1, and exactly 1 when radon raises or reports no block; the call
\* always returns.
C22_AtLeastOne ==
    /\ cc_out # <<>> =>
        /\ cc_out[1].num >= cc_out[1].den
        /\ (cc_visit # Null /\ (cc_visit.raises \/ cc_visit.complexity = <<>>))
              => cc_out[1].num = cc_out[1].den
    /\ ENABLED NextCyclomatic \/ cc_out # <<>>

\* The fallback has measured a code with no branch keyword that stands
\* between two spaces: the result is the base of one.
C22_Witness ==
    /\ cc_out # <<>>
    /\ cc_visit = Null
    /\ cc_code = <<"i", "f", " ", "x">>
    /\ cc_out[1] = One

---------------------------------------------------------------------------
(* scripts/quality.py, nesting_depth.  A tree is its nodes 1..n, node 1    *)
(* the root, with the kind and the parent of each; ast.NodeVisitor visits  *)
(* the children of a node in order, one step of the walk per action.       *)

\* The classes of the isinstance test, lines 39-46.
PushKinds ==
    {"If", "For", "While", "With", "Try", "AsyncFor", "FunctionDef", "AsyncFunctionDef"}

\* push = isinstance(n, (...))
Push(kind) == kind \in PushKinds

\* Kinds of the trees walked: statements that hold statements, and Assign,
\* which holds none.
CompoundKinds == {"If", "For", "With", "Try", "FunctionDef", "AsyncWith"}
RootKinds == {"Module", "FunctionDef"}

Children(t, n) == { c \in 1..Len(t.kind) : t.parent[c] = n }

Trees ==
    { t \in [kind : UNION { [1..m -> CompoundKinds \cup {"Assign", "Module"}] : m \in 1..(MaxNodes + 1) },
             parent : UNION { [1..m -> 0..MaxNodes] : m \in 1..(MaxNodes + 1) }] :
        /\ Len(t.kind) = Len(t.parent)
        /\ t.kind[1] \in RootKinds
        /\ t.parent[1] = 0
        /\ \A c \in 2..Len(t.kind) :
            /\ t.parent[c] \in 1..(c - 1)
            /\ t.kind[c] \in CompoundKinds \cup {"Assign"}
            /\ t.kind[t.parent[c]] # "Assign" }

InitNesting ==
    /\ nd_tree \in Trees
    /\ nd_stack = <<>>
    /\ nd_seen = {}
    /\ depth = 0
    /\ max_depth = 0
    /\ nd_out = <<>>
    /\ DedupIdle
    /\ NormIdle
    /\ SplitIdle
    /\ DocIdle
    /\ ValIdle
    /\ ShingleIdle
    /\ CycIdle
    /\ EquivIdle
    /\ RunIdle
    /\ SecurityIdle
    /\ FlowIdle

\* generic_visit(n) up to the call of super().generic_visit, lines 35-51.
Enter(n) ==
    /\ nd_stack' = Append(nd_stack, n)
    /\ nd_seen' = nd_seen \cup {n}
    /\ depth' = IF Push(nd_tree.kind[n]) THEN depth + 1 ELSE depth
    /\ max_depth' = IF Push(nd_tree.kind[n]) THEN Max(max_depth, depth + 1) ELSE max_depth

\* Walker().visit(node), line 56.
VisitRoot ==
    /\ nd_out = <<>>
    /\ nd_seen = {}
    /\ Enter(1)
    /\ UNCHANGED <<nd_tree, nd_out, frame_nest>>

\* super().generic_visit(n) visits the next child, line 52.
VisitChild ==
    /\ nd_stack # <<>>
    /\ LET open == Children(nd_tree, nd_stack[Len(nd_stack)]) \ nd_seen
       IN  /\ open # {}
           /\ Enter(SetMin(open))
    /\ UNCHANGED <<nd_tree, nd_out, frame_nest>>

\* generic_visit(n) after its children, lines 53-54; the return of line 57
\* when n is the root.
Leave ==
    /\ nd_stack # <<>>
    /\ Children(nd_tree, nd_stack[Len(nd_stack)]) \ nd_seen = {}
    /\ depth' = IF Push(nd_tree.kind[nd_stack[Len(nd_stack)]]) THEN depth - 1 ELSE depth
    /\ nd_stack' = SubSeq(nd_stack, 1, Len(nd_stack) - 1)
    /\ nd_out' = IF Len(nd_stack) = 1 THEN <<max_depth>> ELSE nd_out
    /\ UNCHANGED <<nd_tree, nd_seen, max_depth, frame_nest>>

NextNesting ==
    \/ VisitRoot
    \/ VisitChild
    \/ Leave

SpecNesting == InitNesting /\ [][NextNesting]_vars

\* The nodes on the path from the root to n, n included.
RECURSIVE PathTo(_, _)
PathTo(t, n) == IF n = 0 THEN {} ELSE {n} \cup PathTo(t, t.parent[n])

\* The greatest number of nodes of the kinds B on a path from the root.
DeepestOf(t, B) ==
    LET count(n) == Cardinality({ a \in PathTo(t, n) : t.kind[a] \in B })
    IN  CHOOSE d \in 0..Len(t.kind) :
            /\ \A n \in 1..Len(t.kind) : count(n) <= d
            /\ d = 0 \/ \E n \in 1..Len(t.kind) : count(n) = d

\* The block nodes the claim names: conditional, loop, with/context block
\* (with and async with), exception block, function definition.
ClaimBlocks ==
    {"If", "For", "While", "AsyncFor", "With", "AsyncWith", "Try",
     "FunctionDef", "AsyncFunctionDef"}

\* What the walk computes: the deepest path counted over the classes of
\* the isinstance test; the running depth is back at 0 at the end.
NestingAsCoded ==
    nd_out # <<>> =>
        /\ nd_out[1] = DeepestOf(nd_tree, PushKinds)
        /\ depth = 0
        /\ nd_out[1] >= 0

\* C23: nesting_depth returns the greatest number of enclosing block nodes
\* over the nodes of the tree, block nodes being conditionals, loops,
\* with/context blocks, exception blocks and function definitions; the
\* running depth is back at 0 when the walk ends and the result is >= 0.
C23_DeepestBlockPath ==
    nd_out # <<>> =>
        /\ nd_out[1] = DeepestOf(nd_tree, ClaimBlocks)
        /\ depth = 0
        /\ nd_out[1] >= 0

---------------------------------------------------------------------------
(* scripts/quality.py, ast_equivalent, on the codes of the line vocabulary *)
(* of split_code_for_completion.                                           *)

\* A line without its indentation: what the parser keeps of it.
LineText(l) ==
    CASE l \in {"x = 1", "    x = 1", "        x = 1"} -> "x = 1"
      [] l = "    if x:" -> "if x:"
      [] l = "    def g(b):" -> "def g(b):"
      [] l = "      b):" -> "b):"
      [] OTHER -> l

\* ast.dump(tree, include_attributes=False) of one statement: its class,
\* the text of its header (name, arguments, test or assignment) and the
\* dumps of its body; no line number, no column.
RECURSIVE Dump(_, _)
Dump(ls, node) ==
    LET last == IF node.body = <<>> THEN node.lineno ELSE node.body[1].lineno - 1
    IN  [kind |-> node.kind,
         head |-> [i \in 1..(last - node.lineno + 1) |-> LineText(ls[node.lineno + i - 1])],
         body |-> [i \in 1..Len(node.body) |-> Dump(ls, node.body[i])]]

\* The dump of a module.
DumpModule(ls) ==
    LET t == safe_parse(ls) IN [i \in 1..Len(t.body) |-> Dump(ls, t.body[i])]

\* ast_equivalent without the test of line 130.
ast_equivalent_NoParseCheck(a, b) ==
    IF DumpModule(a) = DumpModule(b)
    THEN [equal |-> TRUE, reason |-> "ast_equiv"]
    ELSE [equal |-> FALSE, reason |-> "not_equiv"]

\* ast_equivalent(a_code, b_code)
ast_equivalent(a, b) ==
    IF ~safe_parse(a).parsed \/ ~safe_parse(b).parsed
    THEN [equal |-> FALSE, reason |-> "parse_error"]
    ELSE IF DumpModule(a) = DumpModule(b)
    THEN [equal |-> TRUE, reason |-> "ast_equiv"]
    ELSE [equal |-> FALSE, reason |-> "not_equiv"]

\* The second code of a comparison.
OtherCodes ==
    { <<"def f(a):", "    x = 1">>, <<"def f(a):", "        x = 1">>,
      <<"def f(a,", "      b):", "    x = 1">>, <<"x = 1">>, <<"x = 1", "x = 1">>,
      <<"def f(a):">>, <<>>, <<"def f(a):", "    if x:", "        x = 1">> }

InitEquiv ==
    /\ a_code \in SeqsUpTo(CodeLines, MaxEquivLines)
    /\ b_code \in OtherCodes
    /\ eq_out = <<>>
    /\ DedupIdle
    /\ NormIdle
    /\ SplitIdle
    /\ DocIdle
    /\ ValIdle
    /\ ShingleIdle
    /\ CycIdle
    /\ NestIdle
    /\ RunIdle
    /\ SecurityIdle
    /\ FlowIdle

\* ast_equivalent(a, b)
Compare ==
    /\ eq_out = <<>>
    /\ eq_out' = <<ast_equivalent(a_code, b_code)>>
    /\ UNCHANGED <<a_code, b_code, frame_equiv>>

\* ast_equivalent(b, a)
CompareSwapped ==
    /\ Len(eq_out) = 1
    /\ eq_out' = Append(eq_out, ast_equivalent(b_code, a_code))
    /\ UNCHANGED <<a_code, b_code, frame_equiv>>

NextEquiv ==
    \/ Compare
    \/ CompareSwapped

SpecEquiv == InitEquiv /\ [][NextEquiv]_vars

\* Two lists of statements are the same once line numbers and columns are
\* set aside: same classes, same header texts, same bodies, pairwise.
RECURSIVE SameStatements(_, _, _, _)
SameStatements(la, na, lb, nb) ==
    /\ Len(na) = Len(nb)
    /\ \A i \in 1..Len(na) :
        LET x == na[i]
            y == nb[i]
            hx == IF x.body = <<>> THEN 1 ELSE x.body[1].lineno - x.lineno
            hy == IF y.body = <<>> THEN 1 ELSE y.body[1].lineno - y.lineno
        IN  /\ x.kind = y.kind
            /\ hx = hy
            /\ \A d \in 0..(hx - 1) : LineText(la[x.lineno + d]) = LineText(lb[y.lineno + d])
            /\ SameStatements(la, x.body, lb, y.body)

\* C24: ast_equivalent returns (False, parse_error) when either code fails
\* to parse, else (True, ast_equiv) when the two trees are the same with
\* positions set aside and (False, not_equiv) when they differ; the boolean
\* is True exactly for ast_equiv, and swapping the codes gives the same.
C24_EquivalentIffSameTree ==
    /\ eq_out # <<>> =>
        LET ta == safe_parse(a_code)
            tb == safe_parse(b_code)
            r  == eq_out[1]
        IN  /\ (~ta.parsed \/ ~tb.parsed) => r = [equal |-> FALSE, reason |-> "parse_error"]
            /\ (ta.parsed /\ tb.parsed /\ SameStatements(a_code, ta.body, b_code, tb.body))
                  => r = [equal |-> TRUE, reason |-> "ast_equiv"]
            /\ (ta.parsed /\ tb.parsed /\ ~SameStatements(a_code, ta.body, b_code, tb.body))
                  => r = [equal |-> FALSE, reason |-> "not_equiv"]
            /\ r.equal <=> r.reason = "ast_equiv"
    /\ Len(eq_out) = 2 => eq_out[2] = eq_out[1]

\* Two codes that differ in the indentation of a body have been compared
\* both ways and found equivalent.
C24_Witness ==
    /\ Len(eq_out) = 2
    /\ a_code = <<"def f(a):", "    x = 1">>
    /\ b_code = <<"def f(a):", "        x = 1">>
    /\ eq_out[1] = [equal |-> TRUE, reason |-> "ast_equiv"]

---------------------------------------------------------------------------
\* The result of score for the docstring as it stands, when there is one.
Scored == doc_scores # <<>> /\ ~(Len(doc_scores) = 1 /\ added # <<>>)

\* The sum of the claim as an exact fraction: 0.45*param_coverage
\* + 0.25*return_coverage + 0.20*length_score + 0.10*example_bonus, where
\* param_coverage is the share of the parameters the docstring names (1
\* without parameters) and length_score the share of the expected length
\* the docstring has, capped to [0, 1].
ClaimSum ==
    LET lower  == Lower(docstring)
        named  == Cardinality({ i \in 1..Len(doc_params) : Contains(lower, Lower(doc_params[i])) })
        n      == IF doc_params = <<>> THEN 1 ELSE Len(doc_params)
        pcov   == IF doc_params = <<>> THEN 1 ELSE named
        ret    == IF Contains(lower, W_return) THEN 1 ELSE 0
        bonus  == IF Contains(lower, W_example) \/ Contains(docstring, W_colons)
                  THEN 1 ELSE 0
        words  == Len(Split(docstring))
        capped == IF words > expected_len THEN expected_len ELSE words
    IN  [num |-> 45 * pcov * expected_len + 25 * ret * n * expected_len
                 + 20 * capped * n + 10 * bonus * n * expected_len,
         den |-> 100 * n * expected_len]

\* The tier the claim gives the score num / den.
ClaimTier(num, den) ==
    IF 10 * num >= 7 * den THEN "high_quality"
    ELSE IF 10 * num >= 4 * den THEN "medium_quality"
    ELSE "low_quality"

\* C25: score is 0.45*param_coverage + 0.25*return_coverage
\* + 0.20*length_score + 0.10*example_bonus, with param_coverage 1 when
\* there are no parameters and length_score capped to [0, 1]; it lies in
\* [0, 1]; the tier is high_quality iff score >= 0.7, medium_quality iff
\* 0.4 <= score < 0.7, low_quality otherwise; an absent docstring of a
\* parameterless function scores 0.45, medium_quality.  The score returned
\* has four decimals: it is to be the sum to within half a ten-thousandth,
\* and the tier is to be the one the claim gives the score, be that the
\* score returned or the sum itself.
C25_ScoreAndTiers ==
    Scored =>
        LET r     == doc_scores[Len(doc_scores)]
            total == ClaimSum
            diff  == 10000 * total.num - r.score * total.den
        IN
        /\ 2 * diff <= total.den /\ 2 * (0 - diff) <= total.den
        /\ total.num \in 0..total.den
        /\ r.score \in 0..10000
        /\ \/ r.tier = ClaimTier(r.score, 10000)
           \/ r.tier = ClaimTier(total.num, total.den)
        /\ (doc_params = <<>> /\ docstring = <<>>) =>
              r = [score |-> 4500, tier |-> "medium_quality"]

\* What holds of score as coded: the score returned is the sum of the
\* claim to within half a ten-thousandth and lies in [0, 1], and the tier is
\* the one of the claim for the float sum of line 103, which is not always
\* the one of the score returned.
ScoreAsCoded ==
    Scored =>
        LET r     == doc_scores[Len(doc_scores)]
            total == ClaimSum
            diff  == 10000 * total.num - r.score * total.den
            float == Aggregate(doc_params, docstring, expected_len)
        IN
        /\ 2 * diff <= total.den /\ 2 * (0 - diff) <= total.den
        /\ r.score \in 0..10000
        /\ r.tier = "high_quality" <=> ~FLess(float, FDiv(7, 10))
        /\ r.tier = "medium_quality" <=>
              (~FLess(float, FDiv(4, 10)) /\ FLess(float, FDiv(7, 10)))
        /\ r.tier # ClaimTier(r.score, 10000) =>
              (r.tier = "low_quality" /\ r.score = 4000) \/ (r.tier = "medium_quality" /\ r.score = 7000)
        /\ (doc_params = <<>> /\ docstring = <<>>) =>
              r = [score |-> 4500, tier |-> "medium_quality"]

---------------------------------------------------------------------------
\* The neighbor relation of the index is symmetric over the records.
SymmetricNeighbours ==
    \A i, j \in 1..Len(uniq) : Neighbours(i, j) <=> Neighbours(j, i)

\* C26: after the near dedup, the neighbor relation being symmetric, no two
\* kept records are neighbors of each other, and every record the near
\* dedup dropped has a kept neighbor that precedes it in input order.
C26_MaximalIndependent ==
    (pc = "done" /\ SymmetricNeighbours) =>
        /\ \A i, j \in KeptPos : i # j => ~Neighbours(i, j)
        /\ \A j \in (1..Len(uniq)) \ KeptPos :
              \E i \in KeptPos : i < j /\ Neighbours(i, j)

\* Three records: the first two are kept and are no neighbors, the third
\* was dropped as a neighbor of the second only.
C26_Witness ==
    /\ pc = "done"
    /\ Len(uniq) = 3
    /\ SymmetricNeighbours
    /\ KeptPos = {1, 2}
    /\ dropped = {3}
    /\ Neighbours(2, 3)
    /\ ~Neighbours(1, 3)
    /\ ~Neighbours(1, 2)

---------------------------------------------------------------------------
\* The exact-unique records whose code_norm has fewer than shingle_size
\* whitespace tokens.
ShortPos == { i \in 1..Len(uniq) : Len(Split(uniq[i].code_norm)) < shingle_k }

\* C27: the exact-unique records with fewer than shingle_size tokens all
\* get the signature of an empty MinHash and are neighbors of one another;
\* at most one of them is in the kept output, however their code differs.
C27_ShortRecordsCollapse ==
    /\ pc \in {"filter", "done"} =>
        \A i, j \in ShortPos :
            /\ mh_list[i] = [p \in 1..perms |-> MaxHash]
            /\ Neighbours(i, j)
    /\ pc = "done" => Cardinality(KeptPos \cap ShortPos) <= 1

\* Two records of one token each, with different code, both exact-unique:
\* only the first is kept.
C27_Witness ==
    /\ pc = "done"
    /\ Len(uniq) = 2
    /\ ShortPos = {1, 2}
    /\ uniq[1].code_norm # uniq[2].code_norm
    /\ KeptPos = {1}
    /\ Len(kept_file) = 1

---------------------------------------------------------------------------
\* C28: a run of normalize_and_dedup on a directory it was already run on,
\* with the same config, ends as the earlier runs did, with the same
\* summary and the same kept_records.jsonl; the kept file of an earlier
\* run is not among the files read.
C28_RerunSameResult ==
    /\ pc \in {"done", "raised"} =>
        \A n \in 1..Len(past_runs) :
            past_runs[n] = [pc |-> pc, out |-> out, kept_file |-> kept_file]
    /\ run_no > 1 => input = ReadDir(dir_files)

\* A second run has returned on a directory of three records whose first
\* run left a kept file of two lines.
C28_Witness ==
    /\ pc = "done"
    /\ run_no = 2
    /\ Len(input) = 3
    /\ past_runs[1].pc = "done"
    /\ Len(past_runs[1].kept_file) = 2
    /\ out.near_unique = 2
    /\ out.total = 3

---------------------------------------------------------------------------
(* scripts/security_scan.py, security_and_license_gate.  The scanners run  *)
(* in containers outside the code: the reports are taken as the gate       *)
(* finds them when it reads them, lines 63 and 114.  The snapshot is the   *)
(* files of one repository: the license of provenance.json (hint), the two *)
(* reports, and whether the tar of the snapshot is there (tar).            *)

Licenses == {"MIT", "GPL-3.0"}

\* None in the place of a license; no list of allowed licenses holds it.
NoLicense == "None"

\* A report that is missing; a report that is there and whose reading raises
\* (it is not JSON); a scancode report with its license detections; a
\* gitleaks report that is a list of n findings, or some other JSON value.
NoReport == [present |-> FALSE, decodes |-> FALSE]
Undecodable == [present |-> TRUE, decodes |-> FALSE]
Detections(ds) == [present |-> TRUE, decodes |-> TRUE, licenses |-> ds]
Findings(n) == [present |-> TRUE, decodes |-> TRUE, list |-> TRUE, n |-> n]
NotAList == [present |-> TRUE, decodes |-> TRUE, list |-> FALSE]

\* Lines 66-75: the license detected most often, the first of them on a
\* tie; None for a report without a license.
CountOf(ds, l) == Cardinality({ n \in 1..Len(ds) : ds[n] = l })

FirstAt(ds, l) == SetMin({ n \in 1..Len(ds) : ds[n] = l })

MostCommon(ds) ==
    IF ds = <<>> THEN NoLicense
    ELSE CHOOSE l \in { ds[n] : n \in 1..Len(ds) } :
            \A o \in { ds[n] : n \in 1..Len(ds) } :
                \/ CountOf(ds, l) > CountOf(ds, o)
                \/ CountOf(ds, l) = CountOf(ds, o) /\ FirstAt(ds, l) <= FirstAt(ds, o)

\* Lines 62-77.
DetectedLicense(scancode) ==
    IF scancode.decodes THEN MostCommon(scancode.licenses) ELSE NoLicense

\* Lines 112-119.
SecretsFound(docker, gitleaks) ==
    docker /\ gitleaks.decodes /\ gitleaks.list /\ gitleaks.n > 0

\* Line 129: not DOCKER_AVAILABLE or not sec_cfg.get('enabled', True)
ScannersUnavailable(e) == ~e.docker \/ ~Get(e.sec_cfg, "enabled", TRUE)

\* The gate with the secrets looked at before the license.
security_and_license_gate_LicenseLast(snap, e) ==
    LET detected == DetectedLicense(snap.scancode)
        effective == IF ScannersUnavailable(e) THEN snap.hint
                     ELSE IF detected # NoLicense THEN detected ELSE snap.hint
        secrets == IF SecretsFound(e.docker, snap.gitleaks) THEN "quarantined_secrets" ELSE "ok"
    IN  [status |-> IF effective \in e.allowed THEN secrets
                    ELSE IF ScannersUnavailable(e) THEN "blocked_license_scanner_unavailable"
                    ELSE "blocked_license",
         license_spdx |-> effective]

\* security_and_license_gate, lines 108-141 and 160-165.
security_and_license_gate(snap, e) ==
    LET detected == DetectedLicense(snap.scancode)
        effective == IF ScannersUnavailable(e) THEN snap.hint
                     ELSE IF detected # NoLicense THEN detected ELSE snap.hint
        licensed == IF effective \in e.allowed THEN "ok"
                    ELSE IF ScannersUnavailable(e) THEN "blocked_license_scanner_unavailable"
                    ELSE "blocked_license"
    IN  [status |-> IF SecretsFound(e.docker, snap.gitleaks) THEN "quarantined_secrets" ELSE licensed,
         license_spdx |-> effective]

\* Lines 140-144: with a secret found the tar is copied to the quarantine
\* directory; shutil.copy2 raises when the tar is not there, and the call
\* ends without returning.
GateRaises(snap, e) == SecretsFound(e.docker, snap.gitleaks) /\ ~snap.tar

\* The files a call leaves behind.  Lines 95-106: a report that is missing
\* is written, the scancode report as {"error": ...}, a report that names no
\* license, the gitleaks report as the empty list; a report that is there
\* is left as it is, readable or not.  Lines 146-158: provenance.json is
\* written again with license_spdx the license the call returns, unless the
\* call raised before.
AfterGate(snap, e) ==
    [hint     |-> IF GateRaises(snap, e) THEN snap.hint
                  ELSE security_and_license_gate(snap, e).license_spdx,
     scancode |-> IF snap.scancode.present THEN snap.scancode ELSE Detections(<<>>),
     gitleaks |-> IF snap.gitleaks.present THEN snap.gitleaks ELSE Findings(0),
     tar      |-> snap.tar]

Snapshots ==
    [hint : Licenses \cup {NoLicense},
     scancode : { Detections(ds) : ds \in SeqsUpTo(Licenses, MaxDetections) }
                   \cup {NoReport, Undecodable},
     gitleaks : {NoReport, Undecodable, NotAList, Findings(0), Findings(1)},
     tar : BOOLEAN]

ScanEnvs ==
    [docker : BOOLEAN,
     sec_cfg : {NoDict, [enabled |-> FALSE], [enabled |-> TRUE]},
     allowed : {{"MIT"}, {}}]

InitSecurity ==
    /\ snapshot_info \in Snapshots
    /\ scan_env \in ScanEnvs
    /\ gated_out = <<>>
    /\ DedupIdle
    /\ NormIdle
    /\ SplitIdle
    /\ DocIdle
    /\ ValIdle
    /\ ShingleIdle
    /\ CycIdle
    /\ NestIdle
    /\ EquivIdle
    /\ RunIdle
    /\ FlowIdle

\* gated = security_and_license_gate(snapshot, cfg)
RunGate ==
    /\ gated_out = <<>>
    /\ ~GateRaises(snapshot_info, scan_env)
    /\ gated_out' = <<security_and_license_gate(snapshot_info, scan_env)>>
    /\ snapshot_info' = AfterGate(snapshot_info, scan_env)
    /\ UNCHANGED <<scan_env, frame_sec>>

\* What stands for the result of a call that raised.
GateRaised == [raised |-> TRUE]

\* The call raises at line 144: nothing is returned, the placeholders of
\* lines 95-106 are written and provenance.json is not.
RunGateRaises ==
    /\ gated_out = <<>>
    /\ GateRaises(snapshot_info, scan_env)
    /\ gated_out' = <<GateRaised>>
    /\ snapshot_info' = AfterGate(snapshot_info, scan_env)
    /\ UNCHANGED <<scan_env, frame_sec>>

NextSecurity ==
    \/ RunGate
    \/ RunGateRaises

SpecSecurity == InitSecurity /\ [][NextSecurity]_vars

\* A secret finding was read from the gitleaks report.
SecretRead ==
    /\ scan_env.docker
    /\ snapshot_info.gitleaks = Findings(1)

\* A license the scanner found, the scanner having run: docker is there
\* (line 54) and the scancode report names a license.
ScannerFound ==
    IF scan_env.docker /\ "licenses" \in DOMAIN snapshot_info.scancode
    THEN MostCommon(snapshot_info.scancode.licenses) ELSE NoLicense

\* C30 as stated: the status a call returns is ok only if the effective
\* license (the one the scanner detected when scanners ran and found one,
\* else the ingest hint) is allowed and no secret finding was read; a secret
\* finding always gives quarantined_secrets.  The snapshot is the one the
\* call reads, the status the one it returns.
C30_OkOnlyIfScannedLicenseAllowed ==
    [][gated_out' # gated_out =>
        LET returned  == gated_out'[1] # GateRaised
            effective == IF ScannerFound # NoLicense THEN ScannerFound ELSE snapshot_info.hint
        IN  /\ (returned /\ gated_out'[1].status = "ok") =>
                    (effective \in scan_env.allowed /\ ~SecretRead)
            /\ SecretRead => (returned /\ gated_out'[1].status = "quarantined_secrets")]_vars

\* C30 amended: the scanner's license counts only when docker is there and
\* the security section is not disabled; otherwise the hint alone decides.
\* The call returns unless a secret finding was read and the tar of the
\* snapshot is not there; a call that returns gives ok only for an allowed
\* effective license and no secret finding, and quarantined_secrets for a
\* secret finding.
C30_OkOnlyIfEffectiveLicenseAllowed ==
    [][gated_out' # gated_out =>
        LET returned  == gated_out'[1] # GateRaised
            scanned   == scan_env.docker /\ scan_env.sec_cfg # [enabled |-> FALSE]
            effective == IF scanned /\ ScannerFound # NoLicense
                         THEN ScannerFound ELSE snapshot_info.hint
        IN  /\ returned <=> ~(SecretRead /\ ~snapshot_info.tar)
            /\ returned =>
                  /\ gated_out'[1].status = "ok" =>
                        (effective \in scan_env.allowed /\ ~SecretRead)
                  /\ SecretRead => gated_out'[1].status = "quarantined_secrets"]_vars

\* A snapshot with an allowed license, found by the scanner, and with a
\* secret finding, has been quarantined, and its provenance now carries the
\* license found.
C30_Witness ==
    /\ gated_out # <<>>
    /\ scan_env = [docker |-> TRUE, sec_cfg |-> NoDict, allowed |-> {"MIT"}]
    /\ snapshot_info.hint = "MIT"
    /\ snapshot_info.scancode = Detections(<<"GPL-3.0", "MIT", "MIT">>)
    /\ snapshot_info.tar
    /\ SecretRead
    /\ gated_out[1] = [status |-> "quarantined_secrets", license_spdx |-> "MIT"]

---------------------------------------------------------------------------
(* pipeline.py, the flow main from line 143 on.  Every task is submitted   *)
(* and waited for at once (.submit(...).result()), so a task is one step;  *)
(* a task that fails for good raises in the flow and ends it.              *)

\* The environment of the gate in the flow.
FlowEnv == [docker |-> TRUE, sec_cfg |-> NoDict, allowed |-> {"MIT"}]

\* Repositories: one that cannot be cloned, one that passes the gate, one
\* with a license that is not allowed, one with a secret.
Scanned(hint, findings) ==
    [ingest |-> "ok",
     snap |-> [hint |-> hint, scancode |-> NoReport, gitleaks |-> Findings(findings),
               tar |-> TRUE]]

Repos ==
    { [ingest |-> "error"], Scanned("MIT", 0), Scanned("GPL-3.0", 0), Scanned("MIT", 1) }

\* Line 145, len(manifest[: max_repos]): a slice stops at max_repos when it
\* is not negative and at len(manifest) + max_repos when it is, and in both
\* cases within the list.
Taken ==
    LET stop == IF max_repos < 0 THEN Len(flow_manifest) + max_repos ELSE max_repos
    IN  IF stop < 0 THEN 0 ELSE Min(Len(flow_manifest), stop)

InitFlow ==
    /\ flow_manifest \in SeqsUpTo(Repos, MaxRepos)
    /\ max_repos \in (0 - MaxRepos)..MaxRepos
    /\ flow_pc = "ingest"
    /\ flow_i = 0
    /\ gated_results = <<>>
    /\ ast_dirs = <<>>
    /\ flow_log = <<>>
    /\ DedupIdle
    /\ NormIdle
    /\ SplitIdle
    /\ DocIdle
    /\ ValIdle
    /\ ShingleIdle
    /\ CycIdle
    /\ NestIdle
    /\ EquivIdle
    /\ RunIdle
    /\ SecurityIdle

Logged(op, repo, status) == Append(flow_log, [op |-> op, repo |-> repo, status |-> status])

\* Lines 146-149: the ingest of the next repository; on an error the loop
\* goes on to the one after.
IngestRepo ==
    /\ flow_pc = "ingest"
    /\ flow_i < Taken
    /\ flow_log' = Logged("ingest", flow_i + 1, flow_manifest[flow_i + 1].ingest)
    /\ IF flow_manifest[flow_i + 1].ingest = "ok"
       THEN flow_pc' = "gate" /\ flow_i' = flow_i
       ELSE flow_pc' = "ingest" /\ flow_i' = flow_i + 1
    /\ UNCHANGED <<flow_manifest, max_repos, gated_results, ast_dirs, frame_flow>>

\* GateRepo keeping every gated result, whatever its status.
GateRepo_KeepAll ==
    /\ flow_pc = "gate"
    /\ LET gated == security_and_license_gate(flow_manifest[flow_i + 1].snap, FlowEnv)
       IN  /\ flow_log' = Logged("gate", flow_i + 1, gated.status)
           /\ gated_results' = Append(gated_results, flow_i + 1)
    /\ flow_pc' = "ingest"
    /\ flow_i' = flow_i + 1
    /\ UNCHANGED <<flow_manifest, max_repos, ast_dirs, frame_flow>>

\* Lines 150-152: the gate of the repository just ingested.
GateRepo ==
    /\ flow_pc = "gate"
    /\ LET gated == security_and_license_gate(flow_manifest[flow_i + 1].snap, FlowEnv)
       IN  /\ flow_log' = Logged("gate", flow_i + 1, gated.status)
           /\ gated_results' = IF gated.status = "ok"
                               THEN Append(gated_results, flow_i + 1) ELSE gated_results
    /\ flow_pc' = "ingest"
    /\ flow_i' = flow_i + 1
    /\ UNCHANGED <<flow_manifest, max_repos, ast_dirs, frame_flow>>

\* The end of the loop of line 145.
EndGating ==
    /\ flow_pc = "ingest"
    /\ flow_i = Taken
    /\ flow_pc' = "parse"
    /\ flow_i' = 0
    /\ UNCHANGED <<flow_manifest, max_repos, gated_results, ast_dirs, flow_log, frame_flow>>

\* Lines 157-159: one parse task.
ParseRepo ==
    /\ flow_pc = "parse"
    /\ flow_i < Len(gated_results)
    /\ flow_log' = Logged("parse", gated_results[flow_i + 1], "ok")
    /\ ast_dirs' = Append(ast_dirs, gated_results[flow_i + 1])
    /\ flow_i' = flow_i + 1
    /\ UNCHANGED <<flow_manifest, max_repos, flow_pc, gated_results, frame_flow>>

\* Lines 161-163.
ExitEarly ==
    /\ flow_pc = "parse"
    /\ flow_i = Len(gated_results)
    /\ ast_dirs = <<>>
    /\ flow_pc' = "early"
    /\ UNCHANGED <<flow_manifest, max_repos, flow_i, gated_results, ast_dirs, flow_log, frame_flow>>

\* Line 166.
RunDedup ==
    /\ flow_pc = "parse"
    /\ flow_i = Len(gated_results)
    /\ ast_dirs # <<>>
    /\ flow_log' = Logged("dedup", 0, "ok")
    /\ flow_pc' = "tasks"
    /\ UNCHANGED <<flow_manifest, max_repos, flow_i, gated_results, ast_dirs, frame_flow>>

\* Line 169.
BuildTasks ==
    /\ flow_pc = "tasks"
    /\ flow_log' = Logged("tasks", 0, "ok")
    /\ flow_pc' = "validate"
    /\ UNCHANGED <<flow_manifest, max_repos, flow_i, gated_results, ast_dirs, frame_flow>>

\* Line 172.
RunValidate ==
    /\ flow_pc = "validate"
    /\ flow_log' = Logged("validate", 0, "ok")
    /\ flow_pc' = "done"
    /\ UNCHANGED <<flow_manifest, max_repos, flow_i, gated_results, ast_dirs, frame_flow>>

\* The task the flow waits for raises after its retries: .result() raises
\* and the flow ends there.
TaskFails ==
    /\ \/ flow_pc \in {"gate", "tasks", "validate"}
       \/ flow_pc = "ingest" /\ flow_i < Taken
       \/ flow_pc = "parse" /\ ~(flow_i = Len(gated_results) /\ ast_dirs = <<>>)
    /\ flow_pc' = "failed"
    /\ UNCHANGED <<flow_manifest, max_repos, flow_i, gated_results, ast_dirs, flow_log, frame_flow>>

NextFlow ==
    \/ IngestRepo
    \/ GateRepo
    \/ EndGating
    \/ ParseRepo
    \/ ExitEarly
    \/ RunDedup
    \/ BuildTasks
    \/ RunValidate
    \/ TaskFails

SpecFlow == InitFlow /\ [][NextFlow]_vars

\* The positions of the log where a task of a kind finished.
LogOf(op) == { k \in 1..Len(flow_log) : flow_log[k].op = op }

OkOf(op) == { k \in LogOf(op) : flow_log[k].status = "ok" }

\* C29: a repository is parsed only after its ingest and then its gate
\* returned ok; dedup starts only after the parse of every gated
\* repository has finished, task building only after dedup, validation only
\* after task building; when no repository passes the gate none of the
\* three runs.
C29_StagesInOrder ==
    /\ \A k \in LogOf("parse") :
          \E a \in OkOf("ingest"), b \in OkOf("gate") :
              /\ a < b /\ b < k
              /\ flow_log[a].repo = flow_log[k].repo
              /\ flow_log[b].repo = flow_log[k].repo
    /\ \A d \in LogOf("dedup") :
          /\ \A k \in LogOf("parse") : k < d
          /\ \A b \in OkOf("gate") :
                \E k \in LogOf("parse") : k < d /\ flow_log[k].repo = flow_log[b].repo
    /\ \A t \in LogOf("tasks") : \E d \in LogOf("dedup") : d < t
    /\ \A v \in LogOf("validate") : \E t \in LogOf("tasks") : t < v
    /\ OkOf("gate") = {} =>
          LogOf("dedup") \cup LogOf("tasks") \cup LogOf("validate") = {}

\* The flow has finished on three repositories: the first could not be
\* cloned, the second was quarantined, the third was parsed, and dedup,
\* task building and validation ran in that order.
C29_Witness ==
    /\ flow_pc = "done"
    /\ max_repos = 3
    /\ flow_manifest = <<[ingest |-> "error"], Scanned("MIT", 1), Scanned("MIT", 0)>>
    /\ gated_results = <<3>>
    /\ Len(flow_log) = 9
    /\ flow_log[6] = [op |-> "parse", repo |-> 3, status |-> "ok"]
    /\ flow_log[9].op = "validate"

=============================================================================
